---- MODULE Spec2Model ----
(***************************************************************************)
(* The examples of the repository, as one state machine: the concurrency   *)
(* examples, and the examples of closures, pointers, defer and recover,    *)
(* range loops and conditionals.                                           *)
(*                                                                         *)
(* Every example is a small `main` program, or functions with the caller  *)
(* that runs them (fanOut and merge, Withdraw, the Stack methods, the      *)
(* function that locks and may fail, counter, sum, safeDiv).  The          *)
(* variable prog says which program runs; it is chosen in Init and never   *)
(* changes, so the programs do not interfere.  A program is a table from a *)
(* goroutine and its position (pc) to the statement it executes next; one  *)
(* action per kind of statement (Lock, Unlock, RLock, once.Do, wg.Add,     *)
(* wg.Done, wg.Wait, go, channel send, receive, close, Println,            *)
(* assignment, time.Sleep, time.After) gives the statement's meaning.      *)
(*                                                                         *)
(* Goroutine 0 is main.  When main returns the program exits, and a panic  *)
(* ends it as well: no goroutine takes a step after either.                *)
(*                                                                         *)
(* Loop bookkeeping on a goroutine's own loop variable (i++ and the test   *)
(* i < n) is folded into the last statement of the loop body: it touches   *)
(* no shared state.  counter++ is modelled as the load and the store it    *)
(* consists of.                                                            *)
(*                                                                         *)
(* Time is counted in seconds (in tenths of a second in the rate limiter   *)
(* example, which sleeps 100 ms).  A statement takes no time on that       *)
(* scale: the clock advances only when no goroutine can take a step, that  *)
(* is when every goroutine sleeps or waits.                                *)
(*                                                                         *)
(* int is a two's-complement integer of IntBits bits in the model, 64 in   *)
(* the programs: sums, quotients and counts wrap around at its ends.       *)
(***************************************************************************)
EXTENDS Integers, Sequences, FiniteSets, TLC

VARIABLES
    prog,      \* the program that runs
    pc,        \* pc[g]: position of goroutine g ("none": not started)
    idx,       \* idx[g]: loop variable of goroutine g
    tmp,       \* tmp[g]: local integer of g (value read or received)
    str,       \* str[g]: local string of g (value received or formatted)
    wg,        \* sync.WaitGroup counter
    mu,        \* sync.Mutex: TRUE when locked
    counter,   \* the shared counter (counter, views, count)
    ch,        \* ch[c]: buffer and closed flag of channel c
    out,       \* lines written to standard output, in order
    panicked,  \* a goroutine panicked (send on / close of a closed channel)
    input,     \* the arguments the program is run with
    mem,       \* the other variables of the program, by name
    rw,        \* sync.RWMutex: the writer and the number of readers holding it
    once,      \* sync.Once: "new", "running" or "done"
    now,       \* the time since the program started (in seconds, see above)
    wake,      \* wake[g]: the time at which sleeping goroutine g wakes (-1: awake)
    timer      \* the time at which the timer of time.After fires (-1: none)

syncVars == <<rw, once>>
timeVars == <<now, wake, timer>>

vars == <<prog, pc, idx, tmp, str, wg, mu, counter, ch, out, panicked,
          input, mem, syncVars, timeVars>>

----------------------------------------------------------------------------
(* Bounds.  The programs start 1000 or 100 incrementing goroutines, 10     *)
(* tasks or items, 5 workers and 20 jobs, chan.go queues 100 emails, and   *)
(* the cache has 5 writers and 20 readers and the bank account 50 deposits *)
(* and 20 withdrawals; the model runs the same code with fewer of them.    *)
(* MaxMoney bounds the balance and the amount Withdraw is tried with,      *)
(* MaxOps the number of calls made on a Stack; the stack example pushes    *)
(* from NumGoroutines goroutines instead of 5.  NumCalls is the number of  *)
(* calls of the function that locks and may fail, MaxCalls the greatest    *)
(* argument of makeRateLimiter, NumCounterCalls the number of calls of the *)
(* two counters, MaxArg the greatest small argument of safeDiv, MaxLen the *)
(* length of the lists sum is given, and TempMargin how far beyond its     *)
(* thresholds the conditional is tried.                                    *)

NumGoroutines == 3
NumTasks == 2
NumWorkers == 2
NumJobs == 2
MaxRand == 2
NumQueued == 2
NumFan == 2
NumInputs == 2
NumWriters == 2
NumReaders == 2
NumDeposits == 2
NumWithdrawals == 1
MaxMoney == 2
MaxOps == 3
NumCalls == 2
MaxCalls == 3
IntBits == 8
MaxArg == 3
NumCounterCalls == 5
MaxLen == 2
TempMargin == 2

(* Program constants. *)
Ch2Cap == 3
NumChanCap == 5
NumValues == 5
EmailChanCap == 100
InitialBalance == 1000
DepositAmount == 10
WithdrawAmount == 20
NumClosures == 3
MergedCap == 10
EmailSeconds == 1
TimeoutSeconds == 1
SleepSecondsNone == 1 - 1

SleepSeconds == 2
NumEmails == 5
SelectRoundsOneMore == 2 + 1

SelectRounds == 2
NumRequests == 5
SleepTenths == 1

MaxProc == NumGoroutines + NumWorkers + 2 * NumFan
Procs == 0 .. MaxProc

CounterProgs == {"unsafe", "mutex", "post", "safe"}
MutexProgs == {"mutex", "post", "safe"}
Progs == CounterProgs \cup
         {"tasks", "processItem", "workerPool", "select", "ping", "pingMain",
          "buffered", "bufferedFull", "rangeChan", "rangeNoClose",
          "emailQueue", "emailSender", "selectTimeout", "pipeline", "fanOut",
          "capture", "passParam", "once", "cache", "bank", "withdraw",
          "stack", "stackOps", "noDefer", "deferUnlock",
          "rateLimiter", "safeDiv", "counters", "pointers", "sum", "range",
          "condition"}

Chans == {"jobs", "results", "chan1", "chan2", "message", "ch2", "numChan",
          "emailChan", "done", "result", "timeout", "nums", "squares",
          "input", "merged", "out1", "out2", "out3", "out4"}

(* The channel fanOut makes for its i-th worker. *)
FanChan(i) == <<"out1", "out2", "out3", "out4">>[i]

(* make(chan T, n): the capacity of each channel; 0 is unbuffered. *)
Cap(c) ==
    CASE c = "jobs" -> NumJobs
      [] c = "results" -> IF prog = "workerPool" THEN NumJobs ELSE NumGoroutines
      [] c = "ch2" -> Ch2Cap
      [] c = "numChan" -> IF prog = "rangeChan" THEN NumChanCap ELSE 0
      [] c = "emailChan" -> EmailChanCap
      [] c = "timeout" -> 1
      [] c = "merged" -> MergedCap
      [] OTHER -> 0

(* The channels of element type string; the others carry int. *)
StringChans == {"results", "chan2", "message", "emailChan", "result"}

(* Channels whose values no receiver keeps (<-done, <-time.After(d)). *)
SignalChans == {"done", "timeout"}

(* A string is a text with up to two numbers formatted into it: the        *)
(* result of fmt.Sprintf(text, a, b), or the line fmt.Println writes for   *)
(* a number ("%d") or a string.  The empty string is the zero value.       *)
Text(t, a, b) == <<t, a, b>>

Halt == [op |-> "halt"]

(* int is a two's-complement integer; the model gives it IntBits bits      *)
(* instead of 64.  Wrapped(n) is the int that arithmetic on ints yields    *)
(* where the mathematical result is n.                                     *)
MinInt == -(2 ^ (IntBits - 1))
MaxInt == 2 ^ (IntBits - 1) - 1
Wrapped(n) == ((n - MinInt) % (2 ^ IntBits)) + MinInt

Abs(n) == IF n < 0 THEN -n ELSE n

----------------------------------------------------------------------------
(* The programs. *)

(* for i := 0; i < n; i++ { wg.Add(1); go f(...) }; wg.Wait()              *)
SpawnLoop(g, n, start, after) ==
    CASE pc[g] = "add" -> [op |-> "wgadd", next |-> "go"]
      [] pc[g] = "go" -> [op |-> "go", child |-> idx[g] + 1, start |-> start,
                          idx |-> idx[g] + 1,
                          next |-> IF idx[g] + 1 < n THEN "add" ELSE after]
      [] OTHER -> Halt

(* counter++ writes back the value it read, plus one. *)
IncrementedFresh(g) == counter + 1

Incremented(g) == tmp[g] + 1

(* The race-condition program: counter++ without a lock. *)
UnsafeCode(g) ==
    IF g = 0
    THEN CASE pc[g] \in {"add", "go"} -> SpawnLoop(g, NumGoroutines, "load", "wait")
           [] pc[g] = "wait" -> [op |-> "wgwait", next |-> "print"]
           [] pc[g] = "print" -> [op |-> "println", val |-> Text("%d", counter, 0),
                                  next |-> "done"]
           [] OTHER -> Halt
    ELSE CASE pc[g] = "load" -> [op |-> "load", next |-> "store"]
           [] pc[g] = "store" -> [op |-> "store", val |-> Incremented(g), next |-> "wgdone"]
           [] pc[g] = "wgdone" -> [op |-> "wgdone", next |-> "done"]
           [] OTHER -> Halt

(* increment, post.inc and SafeCounter.Increment: Lock; counter++; Unlock; *)
(* wg.Done().  In post.inc and Increment the Unlock and the Done are       *)
(* deferred, which runs them in this same order.  SafeCounter's main reads *)
(* the count through Value(), under the lock.                              *)
MutexMain(g) ==
    CASE pc[g] \in {"add", "go"} -> SpawnLoop(g, NumGoroutines, "lock", "wait")
      [] pc[g] = "wait" ->
           [op |-> "wgwait", next |-> IF prog = "safe" THEN "vlock" ELSE "print"]
      [] pc[g] = "print" -> [op |-> "println", val |-> Text("%d", counter, 0),
                             next |-> "done"]
      [] pc[g] = "vlock" -> [op |-> "lock", next |-> "vload"]
      [] pc[g] = "vload" -> [op |-> "load", next |-> "vunlock"]
      [] pc[g] = "vunlock" -> [op |-> "unlock", next |-> "vprint"]
      [] pc[g] = "vprint" -> [op |-> "println", val |-> Text("%d", tmp[g], 0),
                              next |-> "done"]
      [] OTHER -> Halt

MutexCodeEarlyUnlock(g) ==
    IF g = 0
    THEN MutexMain(g)
    ELSE CASE pc[g] = "lock" -> [op |-> "lock", next |-> "load"]
           [] pc[g] = "load" -> [op |-> "load", next |-> "unlock"]
           [] pc[g] = "unlock" -> [op |-> "unlock", next |-> "store"]
           [] pc[g] = "store" -> [op |-> "store", val |-> Incremented(g),
                                  next |-> "wgdone"]
           [] pc[g] = "wgdone" -> [op |-> "wgdone", next |-> "done"]
           [] OTHER -> Halt

MutexCode(g) ==
    IF g = 0
    THEN MutexMain(g)
    ELSE CASE pc[g] = "lock" -> [op |-> "lock", next |-> "load"]
           [] pc[g] = "load" -> [op |-> "load", next |-> "store"]
           [] pc[g] = "store" -> [op |-> "store", val |-> Incremented(g),
                                  next |-> "unlock"]
           [] pc[g] = "unlock" -> [op |-> "unlock", next |-> "wgdone"]
           [] pc[g] = "wgdone" -> [op |-> "wgdone", next |-> "done"]
           [] OTHER -> Halt

(* The WaitGroup example: task(i, &wg) prints two lines; wg.Done() is      *)
(* deferred, so it runs after both.  Goroutine g runs task(g - 1).         *)
TasksCode(g) ==
    IF g = 0
    THEN CASE pc[g] \in {"add", "go"} -> SpawnLoop(g, NumTasks, "started", "wait")
           [] pc[g] = "wait" -> [op |-> "wgwait", next |-> "print"]
           [] pc[g] = "print" -> [op |-> "println", val |-> Text("All tasks completed!", 0, 0), next |-> "done"]
           [] OTHER -> Halt
    ELSE CASE pc[g] = "started" -> [op |-> "println", val |-> Text("Task %d: started", g - 1, 0),
                                    next |-> "finished"]
           [] pc[g] = "finished" -> [op |-> "println", val |-> Text("Task %d: done", g - 1, 0),
                                     next |-> "wgdone"]
           [] pc[g] = "wgdone" -> [op |-> "wgdone", next |-> "done"]
           [] OTHER -> Halt

CloserCodeNoWait(g) ==
    CASE pc[g] \in {"wait", "close"} ->
           [op |-> "close", ch |-> "results", next |-> "done"]
      [] OTHER -> Halt

(* go func() { wg.Wait(); close(results) }() *)
CloserCode(g) ==
    CASE pc[g] = "wait" -> [op |-> "wgwait", next |-> "close"]
      [] pc[g] = "close" -> [op |-> "close", ch |-> "results", next |-> "done"]
      [] OTHER -> Halt

(* for result := range results { fmt.Println(result) } at the end of main *)
CollectLoop(g) ==
    CASE pc[g] = "range" ->
           [op |-> "recv",
            cases |-> {[ch |-> "results", next |-> "print", exit |-> "done"]}]
      [] pc[g] = "print" -> [op |-> "println", val |-> str[g],
                             next |-> "range"]
      [] OTHER -> Halt

(* WaitGroup + return values via channel: processItem(i, results, &wg).   *)
ProcessItemCode(g) ==
    CASE g = 0 ->
           CASE pc[g] \in {"add", "go"} ->
                  SpawnLoop(g, NumGoroutines, "send", "gocloser")
             [] pc[g] = "gocloser" ->
                  [op |-> "go", child |-> NumGoroutines + 1, start |-> "wait",
                   next |-> "range"]
             [] OTHER -> CollectLoop(g)
      [] g = NumGoroutines + 1 -> CloserCode(g)
      [] OTHER ->
           CASE pc[g] = "send" ->
                  [op |-> "send", ch |-> "results", vals |-> {Text("Processed item %d", g - 1, 0)},
                   next |-> "wgdone"]
             [] pc[g] = "wgdone" -> [op |-> "wgdone", next |-> "done"]
             [] OTHER -> Halt

(* The worker pool: worker(w, jobs, results, &wg) for w = 1..numWorkers,   *)
(* main sends the jobs 1..numJobs and closes jobs, the closer goroutine    *)
(* closes results, main collects.  A job is its ID; a result is the pair   *)
(* <<worker, job ID>> that the worker formats into its line.               *)
WorkerPoolCode(g) ==
    CASE g = 0 ->
           CASE pc[g] = "add" -> [op |-> "wgadd", next |-> "go"]
             [] pc[g] = "go" ->
                  [op |-> "go", child |-> idx[g] + 1, start |-> "recvjob",
                   idx |-> IF idx[g] + 1 < NumWorkers THEN idx[g] + 1 ELSE 0,
                   next |-> IF idx[g] + 1 < NumWorkers THEN "add" ELSE "sendjob"]
             [] pc[g] = "sendjob" ->
                  [op |-> "send", ch |-> "jobs", vals |-> {idx[g] + 1},
                   idx |-> idx[g] + 1,
                   next |-> IF idx[g] + 1 < NumJobs THEN "sendjob" ELSE "closejobs"]
             [] pc[g] = "closejobs" -> [op |-> "close", ch |-> "jobs", next |-> "gocloser"]
             [] pc[g] = "gocloser" ->
                  [op |-> "go", child |-> NumWorkers + 1, start |-> "wait",
                   next |-> "range"]
             [] OTHER -> CollectLoop(g)
      [] g = NumWorkers + 1 -> CloserCode(g)
      [] OTHER ->
           CASE pc[g] = "recvjob" ->
                  [op |-> "recv",
                   cases |-> {[ch |-> "jobs", next |-> "sendres", exit |-> "wgdone"]}]
             [] pc[g] = "sendres" ->
                  [op |-> "send", ch |-> "results", vals |-> {Text("Worker %d processed job %d", g, tmp[g])},
                   next |-> "recvjob"]
             [] pc[g] = "wgdone" -> [op |-> "wgdone", next |-> "done"]
             [] OTHER -> Halt

(* chan.go main: two goroutines send 10 on chan1 and "pong" on chan2; main *)
(* runs the select statement twice.                                        *)
SelectCode(g) ==
    CASE g = 0 ->
           CASE pc[g] = "go1" -> [op |-> "go", child |-> 1, start |-> "send",
                                  next |-> "go2"]
             [] pc[g] = "go2" -> [op |-> "go", child |-> 2, start |-> "send",
                                  next |-> "select"]
             [] pc[g] = "select" ->
                  [op |-> "recv",
                   cases |-> {[ch |-> "chan1", next |-> "print1"],
                              [ch |-> "chan2", next |-> "print2"]}]
             [] pc[g] \in {"print1", "print2"} ->
                  [op |-> "println",
                   val |-> IF pc[g] = "print1" THEN Text("%d", tmp[g], 0) ELSE str[g],
                   idx |-> idx[g] + 1,
                   next |-> IF idx[g] + 1 < SelectRounds THEN "select" ELSE "done"]
             [] OTHER -> Halt
      [] g = 1 /\ pc[g] = "send" ->
           [op |-> "send", ch |-> "chan1", vals |-> {10}, next |-> "done"]
      [] g = 2 /\ pc[g] = "send" ->
           [op |-> "send", ch |-> "chan2", vals |-> {Text("pong", 0, 0)}, next |-> "done"]
      [] OTHER -> Halt

(* Channel basics: a goroutine sends "ping" on the unbuffered channel and  *)
(* main receives it ("ping"); in chan.go's commented-out lines main itself *)
(* sends first and receives afterwards ("pingMain").                       *)
PingCode(g) ==
    CASE g = 0 ->
           CASE pc[g] = "go" -> [op |-> "go", child |-> 1, start |-> "send",
                                 next |-> "recv"]
             [] pc[g] = "send" ->
                  [op |-> "send", ch |-> "message", vals |-> {Text("ping", 0, 0)}, next |-> "recv"]
             [] pc[g] = "recv" ->
                  [op |-> "recv", cases |-> {[ch |-> "message", next |-> "print"]}]
             [] pc[g] = "print" -> [op |-> "println", val |-> str[g],
                                    next |-> "done"]
             [] OTHER -> Halt
      [] g = 1 /\ pc[g] = "send" ->
           [op |-> "send", ch |-> "message", vals |-> {Text("ping", 0, 0)}, next |-> "done"]
      [] OTHER -> Halt

(* Buffered channel: main sends 10, 20, 30 on ch2 (capacity 3) and then    *)
(* receives three times; "bufferedFull" is the program with the fourth     *)
(* send, ch2 <- 40, not commented out.                                     *)
NumSends == IF prog = "bufferedFull" THEN Ch2Cap + 1 ELSE Ch2Cap

BufferedCode(g) ==
    IF g = 0
    THEN CASE pc[g] = "send" ->
                [op |-> "send", ch |-> "ch2", vals |-> {10 * (idx[g] + 1)},
                 idx |-> IF idx[g] + 1 < NumSends THEN idx[g] + 1 ELSE 0,
                 next |-> IF idx[g] + 1 < NumSends THEN "send" ELSE "recv"]
           [] pc[g] = "recv" ->
                [op |-> "recv", cases |-> {[ch |-> "ch2", next |-> "print"]}]
           [] pc[g] = "print" ->
                [op |-> "println", val |-> Text("%d", tmp[g], 0),
                 idx |-> idx[g] + 1,
                 next |-> IF idx[g] + 1 < Ch2Cap THEN "recv" ELSE "done"]
           [] OTHER -> Halt
    ELSE Halt

(* Range over a channel: a goroutine sends 1..5 on numChan (capacity 5)    *)
(* and closes it; main runs processChan.                                   *)
ProcessChan(g, after) ==
    CASE pc[g] = "range" ->
           [op |-> "recv",
            cases |-> {[ch |-> "numChan", next |-> "print", exit |-> after]}]
      [] pc[g] = "print" -> [op |-> "println", val |-> Text("Processing number: %d", tmp[g], 0),
                             next |-> "range"]
      [] OTHER -> Halt

RangeChanCode(g) ==
    CASE g = 0 ->
           CASE pc[g] = "go" -> [op |-> "go", child |-> 1, start |-> "send",
                                 next |-> "range"]
             [] pc[g] = "closedmsg" ->
                  [op |-> "println", val |-> Text("Channel closed, done processing", 0, 0), next |-> "done"]
             [] OTHER -> ProcessChan(g, "closedmsg")
      [] g = 1 ->
           CASE pc[g] = "send" ->
                  [op |-> "send", ch |-> "numChan", vals |-> {idx[g] + 1},
                   idx |-> idx[g] + 1,
                   next |-> IF idx[g] + 1 < NumValues THEN "send" ELSE "close"]
             [] pc[g] = "close" -> [op |-> "close", ch |-> "numChan", next |-> "done"]
             [] OTHER -> Halt
      [] OTHER -> Halt

(* chan.go's commented-out lines: go processChan(numChan) on an unbuffered *)
(* channel, and main sends random numbers in a loop that never ends and    *)
(* never closes the channel.  The model follows the loop for MaxSends      *)
(* rounds ("cut" is the point where it stops following it).                *)
MaxSends == MaxRand + 1

RangeNoCloseCode(g) ==
    CASE g = 0 ->
           CASE pc[g] = "go" -> [op |-> "go", child |-> 1, start |-> "range",
                                 next |-> "send"]
             [] pc[g] = "send" ->
                  [op |-> "send", ch |-> "numChan", vals |-> 0 .. MaxRand - 1,
                   idx |-> idx[g] + 1,
                   next |-> IF idx[g] + 1 < MaxSends THEN "send" ELSE "cut"]
             [] OTHER -> Halt
      [] g = 1 -> ProcessChan(g, "done")
      [] OTHER -> Halt

(* Println's line for a label and a string: the two, a space between. *)
Labelled(label, s) == Text(label \o " " \o s[1], s[2], s[3])

EmailSenderDoneFirst(g) ==
    IF pc[g] = "range"
    THEN [op |-> "send", ch |-> "done", vals |-> {TRUE}, next |-> "done"]
    ELSE Halt

(* emailSender of chan.go ("emailSender"), and the consumer goroutine of   *)
(* the README's email queue ("emailQueue"): range over emailChan, print    *)
(* each email (emailSender then sleeps a second), and send on done when    *)
(* the function returns (the deferred function).                           *)
EmailSender(g) ==
    CASE pc[g] = "range" ->
           [op |-> "recv",
            cases |-> {[ch |-> "emailChan", next |-> "print", exit |-> "deferred"]}]
      [] pc[g] = "print" ->
           [op |-> "println",
            val |-> IF prog = "emailSender"
                    THEN Labelled("sending email to", str[g])
                    ELSE Labelled("Sending email to:", str[g]),
            next |-> IF prog = "emailSender" THEN "sleep" ELSE "range"]
      [] pc[g] = "sleep" -> [op |-> "sleep", d |-> EmailSeconds, next |-> "range"]
      [] pc[g] = "deferred" ->
           [op |-> "send", ch |-> "done", vals |-> {TRUE}, next |-> "done"]
      [] OTHER -> Halt

(* The number of emails main queues, and the address of the i-th. *)
EmailCount == IF prog = "emailSender" THEN NumQueued ELSE NumEmails

Email(i) ==
    IF prog = "emailSender"
    THEN Text("%d@gmail.com", i, 0)
    ELSE Text("user%d@gmail.com", i, 0)

(* The email queue: main starts the consumer, sends the addresses on       *)
(* emailChan (chan.go then prints "done sending"), closes it and waits for *)
(* done.                                                                   *)
EmailQueueCode(g) ==
    CASE g = 0 ->
           CASE pc[g] = "go" -> [op |-> "go", child |-> 1, start |-> "range",
                                 next |-> "send"]
             [] pc[g] = "send" ->
                  [op |-> "send", ch |-> "emailChan", vals |-> {Email(idx[g])},
                   idx |-> idx[g] + 1,
                   next |-> IF idx[g] + 1 < EmailCount THEN "send"
                            ELSE IF prog = "emailSender" THEN "sent" ELSE "close"]
             [] pc[g] = "sent" ->
                  [op |-> "println", val |-> Text("done sending", 0, 0),
                   next |-> "close"]
             [] pc[g] = "close" -> [op |-> "close", ch |-> "emailChan",
                                    next |-> "waitdone"]
             [] pc[g] = "waitdone" ->
                  [op |-> "recv", cases |-> {[ch |-> "done", next |-> "done"]}]
             [] OTHER -> Halt
      [] g = 1 -> EmailSender(g)
      [] OTHER -> Halt

(* select with timeout: a goroutine sleeps 2 seconds and sends "done" on   *)
(* result; main selects between result and time.After(1 second).          *)
SelectTimeoutCode(g) ==
    CASE g = 0 ->
           CASE pc[g] = "go" -> [op |-> "go", child |-> 1, start |-> "sleep",
                                 next |-> "after"]
             [] pc[g] = "after" -> [op |-> "after", d |-> TimeoutSeconds,
                                    next |-> "select"]
             [] pc[g] = "select" ->
                  [op |-> "recv",
                   cases |-> {[ch |-> "result", next |-> "gotresult"],
                              [ch |-> "timeout", next |-> "timedout"]}]
             [] pc[g] = "gotresult" ->
                  [op |-> "println", val |-> Labelled("Got result:", str[g]),
                   next |-> "done"]
             [] pc[g] = "timedout" ->
                  [op |-> "println",
                   val |-> Text("Timeout! Operation took too long.", 0, 0),
                   next |-> "done"]
             [] OTHER -> Halt
      [] g = 1 ->
           CASE pc[g] = "sleep" -> [op |-> "sleep", d |-> SleepSeconds,
                                    next |-> "send"]
             [] pc[g] = "send" ->
                  [op |-> "send", ch |-> "result", vals |-> {Text("done", 0, 0)},
                   next |-> "done"]
             [] OTHER -> Halt
      [] OTHER -> Halt

(* The pipeline generate -> square: main prints what it receives from the *)
(* second stage.                                                           *)
Nums == <<2, 3, 4, 5>>

SquareDoubled(n) == n + n

Square(n) == n * n

PipelineCode(g) ==
    CASE g = 0 ->
           CASE pc[g] = "go1" -> [op |-> "go", child |-> 1, start |-> "send",
                                  next |-> "go2"]
             [] pc[g] = "go2" -> [op |-> "go", child |-> 2, start |-> "range",
                                  next |-> "range"]
             [] pc[g] = "range" ->
                  [op |-> "recv",
                   cases |-> {[ch |-> "squares", next |-> "print", exit |-> "done"]}]
             [] pc[g] = "print" -> [op |-> "println", val |-> Text("%d", tmp[g], 0),
                                    next |-> "range"]
             [] OTHER -> Halt
      [] g = 1 ->
           CASE pc[g] = "send" ->
                  [op |-> "send", ch |-> "nums", vals |-> {Nums[idx[g] + 1]},
                   idx |-> idx[g] + 1,
                   next |-> IF idx[g] + 1 < Len(Nums) THEN "send" ELSE "close"]
             [] pc[g] = "close" -> [op |-> "close", ch |-> "nums", next |-> "done"]
             [] OTHER -> Halt
      [] g = 2 ->
           CASE pc[g] = "range" ->
                  [op |-> "recv",
                   cases |-> {[ch |-> "nums", next |-> "send", exit |-> "close"]}]
             [] pc[g] = "send" ->
                  [op |-> "send", ch |-> "squares", vals |-> {Square(tmp[g])},
                   next |-> "range"]
             [] pc[g] = "close" -> [op |-> "close", ch |-> "squares", next |-> "done"]
             [] OTHER -> Halt
      [] OTHER -> Halt

(* Fan-out / fan-in.  fanOut starts NumFan goroutines that range over      *)
(* input and send the double of each value on their own channel; merge     *)
(* starts one forwarding goroutine (output) per channel and a goroutine    *)
(* that closes merged after wg.Wait().  The caller is main: it starts a    *)
(* producer that sends the program's inputs on input and closes it, calls  *)
(* merge(fanOut(input, NumFan)...) and prints what it receives from merged.*)
(* Goroutines 1 .. NumFan are fanOut's, NumFan + 1 .. 2 * NumFan are the   *)
(* forwarding ones, then the closing one and the producer.                 *)
FanCloser == 2 * NumFan + 1
FanProducer == 2 * NumFan + 2

Double(v) == v * 2

MergeCloserNoWait(g) ==
    CASE pc[g] \in {"wait", "close"} ->
           [op |-> "close", ch |-> "merged", next |-> "done"]
      [] OTHER -> Halt

(* go func() { wg.Wait(); close(merged) }() *)
MergeCloser(g) ==
    CASE pc[g] = "wait" -> [op |-> "wgwait", next |-> "close"]
      [] pc[g] = "close" -> [op |-> "close", ch |-> "merged", next |-> "done"]
      [] OTHER -> Halt

FanOutCode(g) ==
    CASE g = 0 ->
           CASE pc[g] = "goprod" ->
                  [op |-> "go", child |-> FanProducer, start |-> "send",
                   next |-> "gofan"]
             [] pc[g] = "gofan" ->
                  [op |-> "go", child |-> idx[g] + 1, start |-> "range",
                   idx |-> IF idx[g] + 1 < NumFan THEN idx[g] + 1 ELSE 0,
                   next |-> IF idx[g] + 1 < NumFan THEN "gofan" ELSE "add"]
             [] pc[g] = "add" -> [op |-> "wgadd", n |-> NumFan, next |-> "goout"]
             [] pc[g] = "goout" ->
                  [op |-> "go", child |-> NumFan + idx[g] + 1, start |-> "range",
                   idx |-> idx[g] + 1,
                   next |-> IF idx[g] + 1 < NumFan THEN "goout" ELSE "gocloser"]
             [] pc[g] = "gocloser" ->
                  [op |-> "go", child |-> FanCloser, start |-> "wait",
                   next |-> "range"]
             [] pc[g] = "range" ->
                  [op |-> "recv",
                   cases |-> {[ch |-> "merged", next |-> "print", exit |-> "done"]}]
             [] pc[g] = "print" -> [op |-> "println", val |-> Text("%d", tmp[g], 0),
                                    next |-> "range"]
             [] OTHER -> Halt
      [] g \in 1 .. NumFan ->
           CASE pc[g] = "range" ->
                  [op |-> "recv",
                   cases |-> {[ch |-> "input", next |-> "send", exit |-> "close"]}]
             [] pc[g] = "send" ->
                  [op |-> "send", ch |-> FanChan(g), vals |-> {Double(tmp[g])},
                   next |-> "range"]
             [] pc[g] = "close" -> [op |-> "close", ch |-> FanChan(g), next |-> "done"]
             [] OTHER -> Halt
      [] g \in NumFan + 1 .. 2 * NumFan ->
           CASE pc[g] = "range" ->
                  [op |-> "recv",
                   cases |-> {[ch |-> FanChan(g - NumFan), next |-> "send",
                               exit |-> "wgdone"]}]
             [] pc[g] = "send" ->
                  [op |-> "send", ch |-> "merged", vals |-> {tmp[g]}, next |-> "range"]
             [] pc[g] = "wgdone" -> [op |-> "wgdone", next |-> "done"]
             [] OTHER -> Halt
      [] g = FanCloser -> MergeCloser(g)
      [] g = FanProducer ->
           CASE pc[g] = "send" ->
                  [op |-> "send", ch |-> "input", vals |-> {input[idx[g] + 1]},
                   idx |-> idx[g] + 1,
                   next |-> IF idx[g] + 1 < Len(input) THEN "send" ELSE "close"]
             [] pc[g] = "close" -> [op |-> "close", ch |-> "input", next |-> "done"]
             [] OTHER -> Halt
      [] OTHER -> Halt

(* The closure-capture gotcha.  In "capture" the goroutines' closure reads *)
(* the loop variable i of main, with no synchronisation, whenever the      *)
(* goroutine gets to run: it sees the value i has then.  In "passParam"    *)
(* the go statement passes i, and goroutine number k has id = k - 1.  The  *)
(* loop is a fragment: what main does after it is not part of the example, *)
(* so main stays at "end".                                                 *)
ClosureCode(g) ==
    IF g = 0
    THEN CASE pc[g] = "go" -> [op |-> "go", child |-> idx[g] + 1, start |-> "print",
                               next |-> "inc"]
           [] pc[g] = "inc" ->
                [op |-> "assign", idx |-> idx[g] + 1,
                 next |-> IF idx[g] + 1 < NumClosures THEN "go" ELSE "end"]
           [] OTHER -> Halt
    ELSE CASE pc[g] = "print" ->
                [op |-> "println",
                 val |-> Text("%d", IF prog = "capture" THEN idx[0] ELSE g - 1, 0),
                 next |-> "done"]
           [] OTHER -> Halt

(* sync.Once: GetConfig.  A pointer is 0 (nil) or the number of the        *)
(* allocation it points to; &Config{...} is a new allocation.  Each of the *)
(* goroutines main starts calls GetConfig and prints the DSN of the Config *)
(* it got, which dereferences the pointer.                                 *)
GetConfig(g) ==
    CASE pc[g] = "once" -> [op |-> "once", body |-> "init", next |-> "return"]
      [] pc[g] = "init" ->
           [op |-> "assign",
            mem |-> [mem EXCEPT !.allocs = @ + 1, !.instance = mem.allocs + 1],
            next |-> "initmsg"]
      [] pc[g] = "initmsg" ->
           [op |-> "println", val |-> Text("Config initialized!", 0, 0),
            next |-> "initdone"]
      [] pc[g] = "initdone" -> [op |-> "oncedone", next |-> "return"]
      [] pc[g] = "return" -> [op |-> "assign", tmp |-> mem.instance, next |-> "use"]
      [] OTHER -> Halt

OnceCode(g) ==
    IF g = 0
    THEN CASE pc[g] \in {"add", "go"} -> SpawnLoop(g, NumGoroutines, "once", "wait")
           [] pc[g] = "wait" -> [op |-> "wgwait", next |-> "done"]
           [] OTHER -> Halt
    ELSE CASE pc[g] = "use" ->
                [op |-> "println", deref |-> tmp[g],
                 val |-> Text("Using DSN: postgres://localhost/mydb", 0, 0),
                 next |-> "wgdone"]
           [] pc[g] = "wgdone" -> [op |-> "wgdone", next |-> "done"]
           [] OTHER -> GetConfig(g)

(* The concurrent cache.  The map is the set of its <<key, value>> pairs.  *)
Lookup(data, key) ==
    IF \E p \in data : p[1] = key
    THEN [val |-> (CHOOSE p \in data : p[1] = key)[2], ok |-> TRUE]
    ELSE [val |-> Text("", 0, 0), ok |-> FALSE]

Stored(data, key, value) == {p \in data : p[1] # key} \cup {<<key, value>>}

(* Set: Lock; defer Unlock; c.data[key] = value. *)
CacheSet(g, key, value) ==
    CASE pc[g] = "wlock" -> [op |-> "wlock", next |-> "set"]
      [] pc[g] = "set" ->
           [op |-> "assign", mem |-> [mem EXCEPT !.data = Stored(@, key, value)],
            next |-> "wunlock"]
      [] pc[g] = "wunlock" -> [op |-> "wunlock", next |-> "wgdone"]

(* Get: RLock; defer RUnlock; val, ok := c.data[key]; return val, ok. *)
CacheGet(g, key) ==
    CASE pc[g] = "rlock" -> [op |-> "rlock", next |-> "get"]
      [] pc[g] = "get" ->
           [op |-> "assign", str |-> Lookup(mem.data, key).val,
            mem |-> [mem EXCEPT !.ok[g] = Lookup(mem.data, key).ok],
            next |-> "runlock"]
      [] pc[g] = "runlock" ->
           [op |-> "runlock", next |-> IF mem.ok[g] THEN "print" ELSE "wgdone"]

(* main starts NumWriters goroutines that Set key i to value i and         *)
(* NumReaders goroutines that Get key i % NumWriters and print it if it is *)
(* there.                                                                  *)
CacheCode(g) ==
    CASE g = 0 ->
           CASE pc[g] = "add" -> [op |-> "wgadd", next |-> "go"]
             [] pc[g] = "go" ->
                  [op |-> "go", child |-> idx[g] + 1, start |-> "wlock",
                   idx |-> IF idx[g] + 1 < NumWriters THEN idx[g] + 1 ELSE 0,
                   next |-> IF idx[g] + 1 < NumWriters THEN "add" ELSE "add2"]
             [] pc[g] = "add2" -> [op |-> "wgadd", next |-> "go2"]
             [] pc[g] = "go2" ->
                  [op |-> "go", child |-> NumWriters + idx[g] + 1, start |-> "rlock",
                   idx |-> idx[g] + 1,
                   next |-> IF idx[g] + 1 < NumReaders THEN "add2" ELSE "wait"]
             [] pc[g] = "wait" -> [op |-> "wgwait", next |-> "done"]
             [] OTHER -> Halt
      [] pc[g] = "wgdone" -> [op |-> "wgdone", next |-> "done"]
      [] pc[g] \in {"wlock", "set", "wunlock"} ->
           CacheSet(g, Text("key%d", g - 1, 0), Text("value%d", g - 1, 0))
      [] pc[g] \in {"rlock", "get", "runlock"} ->
           CacheGet(g, Text("key%d", (g - NumWriters - 1) % NumWriters, 0))
      [] pc[g] = "print" ->
           [op |-> "println",
            val |-> Text("Got: key%d = " \o str[g][1],
                         (g - NumWriters - 1) % NumWriters, str[g][2]),
            next |-> "wgdone"]
      [] OTHER -> Halt

(* The bank account.  The amounts of the example are whole numbers, and    *)
(* the balance is modelled as an integer.  a.balance += amount and         *)
(* a.balance -= amount read the balance and write it back.  An error is a  *)
(* string, the empty one being nil.                                        *)
DepositUnlocked(g, amount) ==
    CASE pc[g] \in {"dlock", "dread"} ->
           [op |-> "assign", tmp |-> mem.balance, next |-> "dwrite"]
      [] pc[g] = "dwrite" ->
           [op |-> "assign", mem |-> [mem EXCEPT !.balance = tmp[g] + amount],
            next |-> "wgdone"]
      [] OTHER -> Halt

Deposit(g, amount) ==
    CASE pc[g] = "dlock" -> [op |-> "lock", next |-> "dread"]
      [] pc[g] = "dread" -> [op |-> "assign", tmp |-> mem.balance, next |-> "dwrite"]
      [] pc[g] = "dwrite" ->
           [op |-> "assign", mem |-> [mem EXCEPT !.balance = tmp[g] + amount],
            next |-> "dunlock"]
      [] pc[g] = "dunlock" -> [op |-> "unlock", next |-> "wgdone"]
      [] OTHER -> Halt

InsufficientOrEqual(amount, balance) == amount >= balance

(* if amount > a.balance *)
Insufficient(amount, balance) == amount > balance

Withdraw(g, amount, after) ==
    CASE pc[g] = "lock" -> [op |-> "lock", next |-> "check"]
      [] pc[g] = "check" ->
           [op |-> "assign", tmp |-> mem.balance,
            next |-> IF Insufficient(amount, mem.balance) THEN "fail" ELSE "subtract"]
      [] pc[g] = "fail" ->
           [op |-> "assign", str |-> Text("insufficient funds", 0, 0),
            next |-> "unlock"]
      [] pc[g] = "subtract" ->
           [op |-> "assign", mem |-> [mem EXCEPT !.balance = @ - amount],
            str |-> Text("", 0, 0), next |-> "unlock"]
      [] pc[g] = "unlock" -> [op |-> "unlock", next |-> after]
      [] OTHER -> Halt

(* main: 1000 in the account, NumDeposits goroutines deposit 10 each and   *)
(* NumWithdrawals goroutines withdraw 20 each and print the error if there *)
(* is one; main waits and prints the balance.                              *)
BankCode(g) ==
    CASE g = 0 ->
           CASE pc[g] = "new" ->
                  [op |-> "assign", mem |-> [mem EXCEPT !.balance = InitialBalance],
                   next |-> "add"]
             [] pc[g] = "add" -> [op |-> "wgadd", next |-> "go"]
             [] pc[g] = "go" ->
                  [op |-> "go", child |-> idx[g] + 1, start |-> "dlock",
                   idx |-> IF idx[g] + 1 < NumDeposits THEN idx[g] + 1 ELSE 0,
                   next |-> IF idx[g] + 1 < NumDeposits THEN "add" ELSE "add2"]
             [] pc[g] = "add2" -> [op |-> "wgadd", next |-> "go2"]
             [] pc[g] = "go2" ->
                  [op |-> "go", child |-> NumDeposits + idx[g] + 1, start |-> "lock",
                   idx |-> idx[g] + 1,
                   next |-> IF idx[g] + 1 < NumWithdrawals THEN "add2" ELSE "wait"]
             [] pc[g] = "wait" -> [op |-> "wgwait", next |-> "print"]
             [] pc[g] = "print" ->
                  [op |-> "println", val |-> Text("Final balance: %d.00", mem.balance, 0),
                   next |-> "done"]
             [] OTHER -> Halt
      [] pc[g] = "wgdone" -> [op |-> "wgdone", next |-> "done"]
      [] g \in 1 .. NumDeposits -> Deposit(g, DepositAmount)
      [] pc[g] = "err" ->
           [op |-> "assign",
            next |-> IF str[g] # Text("", 0, 0) THEN "printerr" ELSE "wgdone"]
      [] pc[g] = "printerr" ->
           [op |-> "println", val |-> Labelled("Error:", str[g]), next |-> "wgdone"]
      [] OTHER -> Withdraw(g, WithdrawAmount, "err")

(* Withdraw called once: main opens an account with balance input[1] and   *)
(* withdraws input[2].                                                     *)
WithdrawCode(g) ==
    CASE g = 0 /\ pc[g] = "new" ->
           [op |-> "assign", mem |-> [mem EXCEPT !.balance = input[1]],
            next |-> "lock"]
      [] g = 0 /\ pc[g] = "returned" -> [op |-> "assign", next |-> "done"]
      [] g = 0 -> Withdraw(g, input[2], "returned")
      [] OTHER -> Halt

(* The stack.  s.data is the sequence mem.stack, its last element the top. *)
(* The body of each method runs with the mutex held (Lock; defer Unlock).  *)
Push(g, val, after) ==
    CASE pc[g] = "pushlock" -> [op |-> "lock", next |-> "append"]
      [] pc[g] = "append" ->
           [op |-> "assign", mem |-> [mem EXCEPT !.stack = Append(@, val)],
            next |-> "pushunlock"]
      [] pc[g] = "pushunlock" -> [op |-> "unlock", next |-> after]
      [] OTHER -> Halt

PoppedFirst(data) == [val |-> Head(data), rest |-> Tail(data)]

(* val := s.data[n-1]; s.data = s.data[:n-1] *)
Popped(data) ==
    [val |-> data[Len(data)], rest |-> SubSeq(data, 1, Len(data) - 1)]

Pop(g, after) ==
    CASE pc[g] = "poplock" -> [op |-> "lock", next |-> "pop"]
      [] pc[g] = "pop" ->
           IF Len(mem.stack) = 0
           THEN [op |-> "assign", tmp |-> 0, mem |-> [mem EXCEPT !.ok[g] = FALSE],
                 next |-> "popunlock"]
           ELSE [op |-> "assign", tmp |-> Popped(mem.stack).val,
                 mem |-> [mem EXCEPT !.ok[g] = TRUE, !.stack = Popped(mem.stack).rest],
                 next |-> "popunlock"]
      [] pc[g] = "popunlock" -> [op |-> "unlock", next |-> after]
      [] OTHER -> Halt

Peek(g, after) ==
    CASE pc[g] = "peeklock" -> [op |-> "lock", next |-> "peek"]
      [] pc[g] = "peek" ->
           IF Len(mem.stack) = 0
           THEN [op |-> "assign", tmp |-> 0, mem |-> [mem EXCEPT !.ok[g] = FALSE],
                 next |-> "peekunlock"]
           ELSE [op |-> "assign", tmp |-> mem.stack[Len(mem.stack)],
                 mem |-> [mem EXCEPT !.ok[g] = TRUE], next |-> "peekunlock"]
      [] pc[g] = "peekunlock" -> [op |-> "unlock", next |-> after]
      [] OTHER -> Halt

(* main: goroutine i pushes i, main waits and pops until Pop reports an    *)
(* empty stack.                                                            *)
StackCode(g) ==
    IF g = 0
    THEN CASE pc[g] \in {"add", "go"} ->
                SpawnLoop(g, NumGoroutines, "pushlock", "wait")
           [] pc[g] = "wait" -> [op |-> "wgwait", next |-> "poplock"]
           [] pc[g] = "test" ->
                [op |-> "assign", next |-> IF mem.ok[g] THEN "print" ELSE "done"]
           [] pc[g] = "print" ->
                [op |-> "println", val |-> Text("Popped: %d", tmp[g], 0),
                 next |-> "poplock"]
           [] OTHER -> Pop(g, "test")
    ELSE CASE pc[g] = "wgdone" -> [op |-> "wgdone", next |-> "done"]
           [] OTHER -> Push(g, g, "wgdone")

(* Calls on a Stack, one after the other: input[k] > 0 is Push(input[k]),  *)
(* 0 is Pop and -1 is Peek.                                                *)
StackOpsCode(g) ==
    CASE g = 0 /\ pc[g] = "call" ->
           [op |-> "assign",
            next |-> CASE idx[g] = Len(input) -> "done"
                       [] idx[g] < Len(input) /\ input[idx[g] + 1] > 0 -> "pushlock"
                       [] idx[g] < Len(input) /\ input[idx[g] + 1] = 0 -> "poplock"
                       [] OTHER -> "peeklock"]
      [] g = 0 /\ pc[g] = "ret" ->
           [op |-> "assign", idx |-> idx[g] + 1, next |-> "call"]
      [] g = 0 /\ pc[g] \in {"pushlock", "append", "pushunlock"} ->
           Push(g, input[idx[g] + 1], "ret")
      [] g = 0 /\ pc[g] \in {"poplock", "pop", "popunlock"} -> Pop(g, "ret")
      [] g = 0 -> Peek(g, "ret")
      [] OTHER -> Halt

(* Mistake 3 and its fix: a function that locks, calls riskyOperation and *)
(* returns the error if there is one.  Without defer the error return      *)
(* leaves the function with the mutex held; with defer mu.Unlock() the     *)
(* unlock runs on the way out of every return.                             *)
ErrorReturnSkipsDefer(deferred, after) == after

ErrorReturn(deferred, after) == IF deferred THEN "unlock" ELSE after

(* riskyOperation() fails in the k-th call exactly when input[k] = 1. *)
RiskyOperation(k) ==
    IF input[k] = 1 THEN Text("risky operation failed", 0, 0) ELSE Text("", 0, 0)

LockedCall(g, deferred, after) ==
    CASE pc[g] = "lock" -> [op |-> "lock", next |-> "risky"]
      [] pc[g] = "risky" ->
           [op |-> "assign", str |-> RiskyOperation(idx[g] + 1),
            next |-> IF RiskyOperation(idx[g] + 1) # Text("", 0, 0)
                     THEN ErrorReturn(deferred, after)
                     ELSE "unlock"]
      [] pc[g] = "unlock" -> [op |-> "unlock", next |-> after]
      [] OTHER -> Halt

(* The function called NumCalls times, one call after the other. *)
LockedCallsCode(g) ==
    CASE g = 0 /\ pc[g] = "call" ->
           [op |-> "assign", next |-> IF idx[g] = Len(input) THEN "done" ELSE "lock"]
      [] g = 0 /\ pc[g] = "ret" ->
           [op |-> "assign", idx |-> idx[g] + 1, next |-> "call"]
      [] g = 0 -> LockedCall(g, prog = "deferUnlock", "ret")
      [] OTHER -> Halt

(* The rate limiter.  calls is the variable the returned function        *)
(* captures; maxCalls is the argument of makeRateLimiter.                  *)
LimitedOrEqual(calls, maxCalls) == calls >= maxCalls

(* if calls > maxCalls { return false } *)
Limited(calls, maxCalls) == calls > maxCalls

(* main: limiter := makeRateLimiter(input[1]), then NumRequests requests,  *)
(* each printed as OK or RATE LIMITED and followed by a sleep of 100 ms    *)
(* (the clock of this program counts tenths of a second).                  *)
RateLimiterCode(g) ==
    CASE g = 0 /\ pc[g] = "make" ->
           [op |-> "assign", mem |-> [mem EXCEPT !.calls = 0], next |-> "limiter"]
      [] g = 0 /\ pc[g] = "limiter" ->
           [op |-> "assign",
            mem |-> [mem EXCEPT !.calls = Wrapped(@ + 1),
                                !.ok[g] = ~Limited(Wrapped(mem.calls + 1), input[1])],
            next |-> "print"]
      [] g = 0 /\ pc[g] = "print" ->
           [op |-> "println",
            val |-> IF mem.ok[g]
                    THEN Text("Request %d: OK", idx[g] + 1, 0)
                    ELSE Text("Request %d: RATE LIMITED", idx[g] + 1, 0),
            next |-> "sleep"]
      [] g = 0 /\ pc[g] = "sleep" ->
           [op |-> "sleep", d |-> SleepTenths, idx |-> idx[g] + 1,
            next |-> IF idx[g] + 1 < NumRequests THEN "limiter" ELSE "done"]
      [] OTHER -> Halt

(* safeDiv.  a / b on ints truncates toward zero and panics when b is 0. *)
QuotientFloored(a, b) == Wrapped(a \div b)

Quotient(a, b) ==
    Wrapped(IF (a < 0) = (b < 0) THEN Abs(a) \div Abs(b) ELSE -(Abs(a) \div Abs(b)))

(* recover() in a deferred function: the value of the panic in flight,     *)
(* which stops the panic, or nil when the goroutine is not panicking.      *)
RecoveredNothing(panicking) == FALSE

Recovered(panicking) == panicking

DivideByZero == Text("recovered from panic: runtime error: integer divide by zero", 0, 0)

(* result and err are the named results: tmp[g] and str[g].  The deferred  *)
(* closure runs after the return statement or the panic, then the function *)
(* returns to its caller, or the panic goes on if nothing recovered it.    *)
SafeDiv(g, a, b, after) ==
    CASE pc[g] = "div" ->
           IF b = 0
           THEN [op |-> "assign", mem |-> [mem EXCEPT !.panicking = TRUE],
                 next |-> "deferred"]
           ELSE [op |-> "assign", tmp |-> Quotient(a, b), str |-> Text("", 0, 0),
                 next |-> "deferred"]
      [] pc[g] = "deferred" ->
           IF Recovered(mem.panicking)
           THEN [op |-> "assign", str |-> DivideByZero,
                 mem |-> [mem EXCEPT !.panicking = FALSE], next |-> "return"]
           ELSE [op |-> "assign", next |-> "return"]
      [] pc[g] = "return" -> [op |-> "return", next |-> after]
      [] OTHER -> Halt

(* main: result, err := safeDiv(input[1], input[2]), then the error or the *)
(* result is printed.                                                      *)
SafeDivCode(g) ==
    CASE g = 0 /\ pc[g] = "check" ->
           [op |-> "println",
            val |-> IF str[g] # Text("", 0, 0)
                    THEN Labelled("Error:", str[g])
                    ELSE Text("%d", tmp[g], 0),
            next |-> "done"]
      [] g = 0 -> SafeDiv(g, input[1], input[2], "check")
      [] OTHER -> Halt

(* counter().  Every call of counter() makes a new variable count, which  *)
(* the returned function captures: mem.count[c] is the count of the c-th   *)
(* function obtained.                                                      *)
CapturedShared(c) == 1

Captured(c) == c

(* count := 1 *)
CountStart == 1

(* main: c1 := counter(); c2 := counter(), then the calls input names, in  *)
(* order (input[k] = 1 is c1(), 2 is c2()), each result printed.           *)
CountersCode(g) ==
    CASE g = 0 /\ pc[g] = "c1" ->
           [op |-> "assign",
            mem |-> [mem EXCEPT !.count[Captured(1)] = CountStart], next |-> "c2"]
      [] g = 0 /\ pc[g] = "c2" ->
           [op |-> "assign",
            mem |-> [mem EXCEPT !.count[Captured(2)] = CountStart], next |-> "call"]
      [] g = 0 /\ pc[g] = "call" ->
           [op |-> "assign",
            mem |-> [mem EXCEPT !.count[Captured(input[idx[g] + 1])] = Wrapped(@ + 1)],
            tmp |-> Wrapped(mem.count[Captured(input[idx[g] + 1])] + 1),
            next |-> "print"]
      [] g = 0 /\ pc[g] = "print" ->
           [op |-> "println", val |-> Text("%d", tmp[g], 0), idx |-> idx[g] + 1,
            next |-> IF idx[g] + 1 < Len(input) THEN "call" ELSE "done"]
      [] OTHER -> Halt

(* changeNum and changeNum1.  The parameter num of changeNum is a copy of *)
(* the argument, kept in tmp[g]; the parameter of changeNum1 points to the *)
(* variable num of main, mem.num.  Assigned(byPointer) is the variable the *)
(* assignment in the function writes.                                      *)
AssignedCaller(byPointer) == "caller"

Assigned(byPointer) == IF byPointer THEN "caller" ELSE "local"

(* num = 5 / *num = 5 *)
NewNum == 5

ChangeNum(g, byPointer, after) ==
    CASE pc[g] \in {"pass", "passptr"} ->
           IF byPointer
           THEN [op |-> "assign", next |-> "setptr"]
           ELSE [op |-> "assign", tmp |-> mem.num, next |-> "set"]
      [] pc[g] \in {"set", "setptr"} ->
           IF Assigned(byPointer) = "caller"
           THEN [op |-> "assign", mem |-> [mem EXCEPT !.num = NewNum],
                 next |-> IF byPointer THEN "inptr" ELSE "in"]
           ELSE [op |-> "assign", tmp |-> NewNum,
                 next |-> IF byPointer THEN "inptr" ELSE "in"]
      [] pc[g] \in {"in", "inptr"} ->
           [op |-> "println",
            val |-> Text("In ChangeNum %d", IF byPointer THEN mem.num ELSE tmp[g], 0),
            next |-> after]
      [] OTHER -> Halt

(* main: num := 1; changeNum(num); changeNum1(&num), num printed after     *)
(* each call.                                                              *)
PointersCode(g) ==
    CASE g = 0 /\ pc[g] = "num" ->
           [op |-> "assign", mem |-> [mem EXCEPT !.num = 1], next |-> "pass"]
      [] g = 0 /\ pc[g] = "after" ->
           [op |-> "println", val |-> Text("After change in main %d", mem.num, 0),
            next |-> "passptr"]
      [] g = 0 /\ pc[g] = "afterptr" ->
           [op |-> "println", val |-> Text("After change in main %d", mem.num, 0),
            next |-> "done"]
      [] g = 0 /\ pc[g] \in {"pass", "set", "in"} -> ChangeNum(g, FALSE, "after")
      [] g = 0 -> ChangeNum(g, TRUE, "afterptr")
      [] OTHER -> Halt

(* The range loop that sums a slice: sum of the variadic example and the  *)
(* first loop of main in range.go.  total is tmp[g].                       *)
PlusOverwrites(total, v) == v

(* total += v *)
Plus(total, v) == Wrapped(total + v)

SumLoop(g, a, after) ==
    CASE pc[g] = "total" ->
           [op |-> "assign", tmp |-> 0, idx |-> 0,
            next |-> IF Len(a) = 0 THEN after ELSE "add"]
      [] pc[g] = "add" ->
           [op |-> "assign", tmp |-> Plus(tmp[g], a[idx[g] + 1]), idx |-> idx[g] + 1,
            next |-> IF idx[g] + 1 < Len(a) THEN "add" ELSE after]
      [] OTHER -> Halt

(* main: fmt.Println(sum(input...)). *)
SumCode(g) ==
    CASE g = 0 /\ pc[g] = "print" ->
           [op |-> "println", val |-> Text("%d", tmp[g], 0), next |-> "done"]
      [] g = 0 -> SumLoop(g, input, "print")
      [] OTHER -> Halt

(* range.go.  nums, the keys of the map user, and the string "golang" with *)
(* the code point of each of its letters.                                  *)
RangeNums == <<1, 3, 2, 4, 5>>
UserKeys == <<"A Something", "B Something">>
Golang == <<"g", "o", "l", "a", "n", "g">>
CodePoint(c) ==
    CASE c = "g" -> 103 [] c = "o" -> 111 [] c = "l" -> 108
      [] c = "a" -> 97 [] OTHER -> 110

(* main: the sum of nums is printed, then the entries of the map in the    *)
(* order the runtime iterates them (input), then the index, the code point *)
(* and the letter of each character of "golang".                           *)
RangeCode(g) ==
    CASE g = 0 /\ pc[g] = "print" ->
           [op |-> "println", val |-> Text("%d", tmp[g], 0), idx |-> 0,
            next |-> "user"]
      [] g = 0 /\ pc[g] = "user" ->
           [op |-> "println", val |-> Text(UserKeys[input[idx[g] + 1]], 0, 0),
            idx |-> IF idx[g] + 1 < Len(UserKeys) THEN idx[g] + 1 ELSE 0,
            next |-> IF idx[g] + 1 < Len(UserKeys) THEN "user" ELSE "rune"]
      [] g = 0 /\ pc[g] = "rune" ->
           [op |-> "println",
            val |-> Text("%d %d", idx[g], CodePoint(Golang[idx[g] + 1])),
            next |-> "letter"]
      [] g = 0 /\ pc[g] = "letter" ->
           [op |-> "println", val |-> Text(Golang[idx[g] + 1], 0, 0),
            idx |-> idx[g] + 1,
            next |-> IF idx[g] + 1 < Len(Golang) THEN "rune" ELSE "done"]
      [] g = 0 -> SumLoop(g, RangeNums, "print")
      [] OTHER -> Halt

(* condition.go.  The if / else-if / else on temp. *)
ColdMax == 15
ModerateMin == 15
ModerateMax == 25

Day(temp) ==
    IF temp <= ColdMax THEN "Cold Day"
    ELSE IF temp >= ModerateMin /\ temp <= ModerateMax THEN "Moderate Day"
    ELSE "Hot Day"

(* age := 15; age >= 18 *)
Age == 15
AdultAge == 18

(* time.Saturday, time.Sunday *)
Weekend == {6, 0}

(* main with temp = input[1], run on weekday input[2]: the day, then       *)
(* "Teenager", "one" (i is 1), the kind of weekday, and the type of        *)
(* "golang".                                                               *)
ConditionCode(g) ==
    CASE g = 0 /\ pc[g] = "temp" ->
           [op |-> "println", val |-> Text(Day(input[1]), 0, 0), next |-> "age"]
      [] g = 0 /\ pc[g] = "age" ->
           [op |-> "println",
            val |-> Text(IF Age >= AdultAge THEN "Adult" ELSE "Teenager", 0, 0),
            next |-> "switch"]
      [] g = 0 /\ pc[g] = "switch" ->
           [op |-> "println", val |-> Text("one", 0, 0), next |-> "weekday"]
      [] g = 0 /\ pc[g] = "weekday" ->
           [op |-> "println",
            val |-> Text(IF input[2] \in Weekend THEN "Weekend" ELSE "Work Days", 0, 0),
            next |-> "whoAmI"]
      [] g = 0 /\ pc[g] = "whoAmI" ->
           [op |-> "println", val |-> Text("Its an String", 0, 0), next |-> "done"]
      [] OTHER -> Halt

(* The statement goroutine g executes next. *)
Instr(g) ==
    CASE prog = "unsafe" -> UnsafeCode(g)
      [] prog \in MutexProgs -> MutexCode(g)
      [] prog = "tasks" -> TasksCode(g)
      [] prog = "processItem" -> ProcessItemCode(g)
      [] prog = "workerPool" -> WorkerPoolCode(g)
      [] prog = "select" -> SelectCode(g)
      [] prog \in {"ping", "pingMain"} -> PingCode(g)
      [] prog \in {"buffered", "bufferedFull"} -> BufferedCode(g)
      [] prog = "rangeChan" -> RangeChanCode(g)
      [] prog = "rangeNoClose" -> RangeNoCloseCode(g)
      [] prog \in {"emailQueue", "emailSender"} -> EmailQueueCode(g)
      [] prog = "selectTimeout" -> SelectTimeoutCode(g)
      [] prog = "pipeline" -> PipelineCode(g)
      [] prog = "fanOut" -> FanOutCode(g)
      [] prog \in {"capture", "passParam"} -> ClosureCode(g)
      [] prog = "once" -> OnceCode(g)
      [] prog = "cache" -> CacheCode(g)
      [] prog = "bank" -> BankCode(g)
      [] prog = "withdraw" -> WithdrawCode(g)
      [] prog = "stack" -> StackCode(g)
      [] prog = "stackOps" -> StackOpsCode(g)
      [] prog \in {"noDefer", "deferUnlock"} -> LockedCallsCode(g)
      [] prog = "rateLimiter" -> RateLimiterCode(g)
      [] prog = "safeDiv" -> SafeDivCode(g)
      [] prog = "counters" -> CountersCode(g)
      [] prog = "pointers" -> PointersCode(g)
      [] prog = "sum" -> SumCode(g)
      [] prog = "range" -> RangeCode(g)
      [] prog = "condition" -> ConditionCode(g)
      [] OTHER -> Halt

(* The integers a function is tried with: the small ones, the example's   *)
(* 10, and the least and the greatest int.                                 *)
Args == (-MaxArg .. MaxArg) \cup {10, MinInt, MaxInt}

(* The lists sum is tried with: the ones of the examples, and every list   *)
(* of up to MaxLen elements among 1, -1 and the least and greatest int.    *)
SumLists ==
    {<<1, 2, 3, 4, 5>>, <<4, 5, 6>>, <<1, 2, 3>>, <<10, 20, 30>>} \cup
    UNION {[1 .. n -> {1, -1, MinInt, MaxInt}] : n \in 0 .. MaxLen}

(* The temperatures the conditional is tried with: those around its two   *)
(* thresholds, and the least and the greatest int.                         *)
Temps == ((ColdMax - TempMargin) .. (ModerateMax + TempMargin)) \cup {MinInt, MaxInt}

(* The arguments a program can be run with.  The values sent on fanOut's   *)
(* input are all equal, or all equal but the last; Withdraw is tried with  *)
(* every balance and amount up to MaxMoney; the calls on a Stack are every *)
(* sequence of MaxOps calls among Push(1), Push(2), Pop and Peek.          *)
Inputs ==
    CASE prog = "fanOut" ->
           {[k \in 1 .. NumInputs |-> 1],
            [k \in 1 .. NumInputs |-> IF k = NumInputs THEN 2 ELSE 1]}
      [] prog = "withdraw" -> [1 .. 2 -> 0 .. MaxMoney]
      [] prog = "stackOps" -> [1 .. MaxOps -> -1 .. 2]
      [] prog \in {"noDefer", "deferUnlock"} -> [1 .. NumCalls -> 0 .. 1]
      [] prog = "rateLimiter" -> [1 .. 1 -> 0 .. MaxCalls]
      [] prog = "safeDiv" -> [1 .. 2 -> Args]
      [] prog = "counters" -> [1 .. NumCounterCalls -> 1 .. 2]
      [] prog = "sum" -> SumLists
      [] prog = "range" -> {<<1, 2>>, <<2, 1>>}
      [] prog = "condition" -> Temps \X (0 .. 6)
      [] OTHER -> {<<>>}

(* Where main starts. *)
Entry ==
    CASE prog \in CounterProgs \cup {"tasks", "processItem", "workerPool", "once",
                                   "cache", "stack"} -> "add"
      [] prog \in {"stackOps", "noDefer", "deferUnlock"} -> "call"
      [] prog \in {"select", "pipeline"} -> "go1"
      [] prog = "fanOut" -> "goprod"
      [] prog \in {"bank", "withdraw"} -> "new"
      [] prog = "rateLimiter" -> "make"
      [] prog = "safeDiv" -> "div"
      [] prog = "counters" -> "c1"
      [] prog = "pointers" -> "num"
      [] prog \in {"sum", "range"} -> "total"
      [] prog = "condition" -> "temp"
      [] prog \in {"ping", "rangeChan", "rangeNoClose", "emailQueue",
                   "emailSender", "selectTimeout", "capture", "passParam"} -> "go"
      [] OTHER -> "send"

----------------------------------------------------------------------------
(* The statements. *)

Running(g) == ~panicked /\ pc[0] # "done" /\ pc[g] \notin {"none", "done"}

NewIdx(g, ins) == IF "idx" \in DOMAIN ins THEN ins.idx ELSE idx[g]

Advance(g, ins) ==
    /\ pc' = [pc EXCEPT ![g] = ins.next]
    /\ idx' = [idx EXCEPT ![g] = NewIdx(g, ins)]

CanLockAlways == TRUE

(* mu.Lock() returns only when the mutex is not held. *)
CanLock == ~mu

Lock(g) ==
    /\ Running(g) /\ Instr(g).op = "lock"
    /\ CanLock
    /\ mu' = TRUE
    /\ Advance(g, Instr(g))
    /\ UNCHANGED <<prog, input, mem, syncVars, timeVars,
                   tmp, str, wg, counter, ch, out, panicked>>

Unlock(g) ==
    /\ Running(g) /\ Instr(g).op = "unlock"
    /\ mu' = FALSE
    /\ Advance(g, Instr(g))
    /\ UNCHANGED <<prog, input, mem, syncVars, timeVars,
                   tmp, str, wg, counter, ch, out, panicked>>

(* counter++, first half: read the shared value. *)
Load(g) ==
    /\ Running(g) /\ Instr(g).op = "load"
    /\ tmp' = [tmp EXCEPT ![g] = counter]
    /\ Advance(g, Instr(g))
    /\ UNCHANGED <<prog, input, mem, syncVars, timeVars,
                   str, wg, mu, counter, ch, out, panicked>>

(* counter++, second half: write back the value read plus one. *)
Store(g) ==
    /\ Running(g) /\ Instr(g).op = "store"
    /\ counter' = Instr(g).val
    /\ Advance(g, Instr(g))
    /\ UNCHANGED <<prog, input, mem, syncVars, timeVars,
                   tmp, str, wg, mu, ch, out, panicked>>

WgAdd(g) ==
    /\ Running(g) /\ Instr(g).op = "wgadd"
    /\ wg' = wg + (IF "n" \in DOMAIN Instr(g) THEN Instr(g).n ELSE 1)
    /\ Advance(g, Instr(g))
    /\ UNCHANGED <<prog, input, mem, syncVars, timeVars,
                   tmp, str, mu, counter, ch, out, panicked>>

WgDone(g) ==
    /\ Running(g) /\ Instr(g).op = "wgdone"
    /\ wg' = wg - 1
    /\ Advance(g, Instr(g))
    /\ UNCHANGED <<prog, input, mem, syncVars, timeVars,
                   tmp, str, mu, counter, ch, out, panicked>>

CanPassWaitAlways == TRUE

(* wg.Wait() returns only when the counter is zero. *)
CanPassWait == wg = 0

WgWait(g) ==
    /\ Running(g) /\ Instr(g).op = "wgwait"
    /\ CanPassWait
    /\ Advance(g, Instr(g))
    /\ UNCHANGED <<prog, input, mem, syncVars, timeVars,
                   tmp, str, wg, mu, counter, ch, out, panicked>>

(* go f(...): the new goroutine starts at the first statement of f. *)
GoStmt(g) ==
    /\ Running(g) /\ Instr(g).op = "go"
    /\ pc' = [pc EXCEPT ![g] = Instr(g).next, ![Instr(g).child] = Instr(g).start]
    /\ idx' = [idx EXCEPT ![g] = NewIdx(g, Instr(g))]
    /\ UNCHANGED <<prog, input, mem, syncVars, timeVars,
                   tmp, str, wg, mu, counter, ch, out, panicked>>

(* fmt.Println; an argument that dereferences a nil pointer panics. *)
Println(g) ==
    /\ Running(g) /\ Instr(g).op = "println"
    /\ IF "deref" \in DOMAIN Instr(g) /\ Instr(g).deref = 0
       THEN /\ panicked' = TRUE
            /\ UNCHANGED <<prog, input, mem, syncVars, timeVars,
                           pc, idx, tmp, str, wg, mu, counter, ch, out>>
       ELSE /\ out' = Append(out, Instr(g).val)
            /\ Advance(g, Instr(g))
            /\ UNCHANGED <<prog, input, mem, syncVars, timeVars,
                           tmp, str, wg, mu, counter, ch, panicked>>

SendReadyOneSlot(c) == Len(ch[c].buf) < Cap(c) + 1

(* A send on channel c can complete by itself while the buffer has room;   *)
(* an unbuffered channel has none, and its send completes only together    *)
(* with a receive (Rendezvous).                                            *)
SendReady(c) == Len(ch[c].buf) < Cap(c)

(* ch <- v on a buffered channel; a send on a closed channel panics. *)
Send(g) ==
    /\ Running(g) /\ Instr(g).op = "send"
    /\ LET ins == Instr(g)
           c == ins.ch
       IN  IF ch[c].closed
           THEN /\ panicked' = TRUE
                /\ UNCHANGED <<prog, input, mem, syncVars, timeVars,
                               pc, idx, tmp, str, wg, mu, counter, ch, out>>
           ELSE /\ SendReady(c)
                /\ \E v \in ins.vals :
                       ch' = [ch EXCEPT ![c].buf = Append(@, v)]
                /\ Advance(g, ins)
                /\ UNCHANGED <<prog, input, mem, syncVars, timeVars,
                               tmp, str, wg, mu, counter, out, panicked>>

DequeueKeep(buf) == [val |-> Head(buf), rest |-> buf]

DequeueLast(buf) == [val |-> buf[Len(buf)], rest |-> SubSeq(buf, 1, Len(buf) - 1)]

(* The receiver's variable takes the value: a string or an int; a value   *)
(* received without a variable is dropped.                                 *)
Received(g, c, v) ==
    CASE c \in StringChans -> str' = [str EXCEPT ![g] = v] /\ UNCHANGED tmp
      [] c \in SignalChans -> UNCHANGED <<tmp, str>>
      [] OTHER -> tmp' = [tmp EXCEPT ![g] = v] /\ UNCHANGED str

(* The value a receive takes from a buffer, and the buffer it leaves. *)
Dequeue(buf) == [val |-> Head(buf), rest |-> Tail(buf)]

(* v := <-ch, a case of select, or one round of range ch: take the oldest  *)
(* buffered value of a channel that has one.                               *)
Recv(g) ==
    /\ Running(g) /\ Instr(g).op = "recv"
    /\ \E k \in Instr(g).cases :
           /\ Len(ch[k.ch].buf) > 0
           /\ Received(g, k.ch, Dequeue(ch[k.ch].buf).val)
           /\ ch' = [ch EXCEPT ![k.ch].buf = Dequeue(ch[k.ch].buf).rest]
           /\ pc' = [pc EXCEPT ![g] = k.next]
    /\ UNCHANGED <<prog, input, mem, syncVars, timeVars,
                   idx, wg, mu, counter, out, panicked>>

(* A send and a receive on an unbuffered channel complete together: the    *)
(* value goes from sender s to receiver r.                                 *)
Rendezvous(s, r) ==
    /\ s # r /\ Running(s) /\ Running(r)
    /\ Instr(s).op = "send" /\ Instr(r).op = "recv"
    /\ Cap(Instr(s).ch) = 0 /\ ~ch[Instr(s).ch].closed
    /\ \E k \in Instr(r).cases :
           /\ k.ch = Instr(s).ch
           /\ \E v \in Instr(s).vals : Received(r, k.ch, v)
           /\ pc' = [pc EXCEPT ![s] = Instr(s).next, ![r] = k.next]
    /\ idx' = [idx EXCEPT ![s] = NewIdx(s, Instr(s))]
    /\ UNCHANGED <<prog, input, mem, syncVars, timeVars,
                   wg, mu, counter, ch, out, panicked>>

RangeEndsWhenEmpty(c) == ch[c].buf = <<>>

(* range ch ends when ch is closed and its buffer is empty. *)
RangeEnds(c) == ch[c].closed /\ ch[c].buf = <<>>

RangeExit(g) ==
    /\ Running(g) /\ Instr(g).op = "recv"
    /\ \E k \in Instr(g).cases :
           /\ "exit" \in DOMAIN k
           /\ RangeEnds(k.ch)
           /\ pc' = [pc EXCEPT ![g] = k.exit]
    /\ UNCHANGED <<prog, input, mem, syncVars, timeVars,
                   idx, tmp, str, wg, mu, counter, ch, out, panicked>>

(* close(ch); closing a closed channel panics. *)
Close(g) ==
    /\ Running(g) /\ Instr(g).op = "close"
    /\ IF ch[Instr(g).ch].closed
       THEN /\ panicked' = TRUE
            /\ UNCHANGED <<prog, input, mem, syncVars, timeVars,
                           pc, idx, tmp, str, wg, mu, counter, ch, out>>
       ELSE /\ ch' = [ch EXCEPT ![Instr(g).ch].closed = TRUE]
            /\ Advance(g, Instr(g))
            /\ UNCHANGED <<prog, input, mem, syncVars, timeVars,
                           tmp, str, wg, mu, counter, out, panicked>>

(* An assignment to variables of the goroutine or of the program: the     *)
(* statement names the new values (i++, x = e).                            *)
Assign(g) ==
    /\ Running(g) /\ Instr(g).op = "assign"
    /\ LET ins == Instr(g)
       IN  /\ tmp' = IF "tmp" \in DOMAIN ins THEN [tmp EXCEPT ![g] = ins.tmp] ELSE tmp
           /\ str' = IF "str" \in DOMAIN ins THEN [str EXCEPT ![g] = ins.str] ELSE str
           /\ mem' = IF "mem" \in DOMAIN ins THEN ins.mem ELSE mem
           /\ Advance(g, ins)
    /\ UNCHANGED <<prog, input, syncVars, timeVars,
                   wg, mu, counter, ch, out, panicked>>

(* A function returns once its deferred calls have run.  If the goroutine  *)
(* is still panicking then, the panic leaves the function; no caller in    *)
(* these programs recovers it, and the program crashes.                    *)
Return(g) ==
    /\ Running(g) /\ Instr(g).op = "return"
    /\ IF mem.panicking
       THEN /\ panicked' = TRUE
            /\ UNCHANGED <<pc, idx>>
       ELSE /\ Advance(g, Instr(g))
            /\ UNCHANGED panicked
    /\ UNCHANGED <<prog, input, mem, syncVars, timeVars,
                   tmp, str, wg, mu, counter, ch, out>>

(* sync.RWMutex.  Lock waits until nobody holds the lock; RLock waits      *)
(* while a writer holds it.  (The runtime also holds new readers back      *)
(* while a writer waits; the model lets them in, which only adds           *)
(* interleavings.)                                                         *)
CanRLockAlways == TRUE

CanRLock == ~rw.writer

WLock(g) ==
    /\ Running(g) /\ Instr(g).op = "wlock"
    /\ ~rw.writer /\ rw.readers = 0
    /\ rw' = [rw EXCEPT !.writer = TRUE]
    /\ Advance(g, Instr(g))
    /\ UNCHANGED <<prog, input, mem, once, timeVars,
                   tmp, str, wg, mu, counter, ch, out, panicked>>

WUnlock(g) ==
    /\ Running(g) /\ Instr(g).op = "wunlock"
    /\ rw' = [rw EXCEPT !.writer = FALSE]
    /\ Advance(g, Instr(g))
    /\ UNCHANGED <<prog, input, mem, once, timeVars,
                   tmp, str, wg, mu, counter, ch, out, panicked>>

RLock(g) ==
    /\ Running(g) /\ Instr(g).op = "rlock"
    /\ CanRLock
    /\ rw' = [rw EXCEPT !.readers = @ + 1]
    /\ Advance(g, Instr(g))
    /\ UNCHANGED <<prog, input, mem, once, timeVars,
                   tmp, str, wg, mu, counter, ch, out, panicked>>

RUnlock(g) ==
    /\ Running(g) /\ Instr(g).op = "runlock"
    /\ rw' = [rw EXCEPT !.readers = @ - 1]
    /\ Advance(g, Instr(g))
    /\ UNCHANGED <<prog, input, mem, once, timeVars,
                   tmp, str, wg, mu, counter, ch, out, panicked>>

OncePassesWhenStarted == once # "new"

(* once.Do(f) returns without calling f only when a call of f has          *)
(* returned; while one is running, the other callers wait.                 *)
OncePasses == once = "done"

(* once.Do(f): the first caller runs f. *)
OnceDo(g) ==
    /\ Running(g) /\ Instr(g).op = "once"
    /\ \/ /\ once = "new"
          /\ once' = "running"
          /\ pc' = [pc EXCEPT ![g] = Instr(g).body]
       \/ /\ OncePasses
          /\ once' = once
          /\ pc' = [pc EXCEPT ![g] = Instr(g).next]
    /\ UNCHANGED <<prog, input, mem, rw, timeVars,
                   idx, tmp, str, wg, mu, counter, ch, out, panicked>>

(* f returns: the Once is done. *)
OnceDone(g) ==
    /\ Running(g) /\ Instr(g).op = "oncedone"
    /\ once' = "done"
    /\ Advance(g, Instr(g))
    /\ UNCHANGED <<prog, input, mem, rw, timeVars,
                   tmp, str, wg, mu, counter, ch, out, panicked>>

(* time.Sleep(d) begins: g sleeps until d seconds from now. *)
Sleep(g) ==
    /\ Running(g) /\ Instr(g).op = "sleep"
    /\ wake[g] = -1
    /\ wake' = [wake EXCEPT ![g] = now + Instr(g).d]
    /\ UNCHANGED <<prog, input, mem, syncVars, now, timer,
                   pc, idx, tmp, str, wg, mu, counter, ch, out, panicked>>

(* time.Sleep returns once the time has come. *)
Wake(g) ==
    /\ Running(g) /\ Instr(g).op = "sleep"
    /\ wake[g] # -1 /\ now >= wake[g]
    /\ wake' = [wake EXCEPT ![g] = -1]
    /\ Advance(g, Instr(g))
    /\ UNCHANGED <<prog, input, mem, syncVars, now, timer,
                   tmp, str, wg, mu, counter, ch, out, panicked>>

(* time.After(d), evaluated on entry to the select statement: starts the   *)
(* timer that sends on the returned channel d seconds from now.            *)
After(g) ==
    /\ Running(g) /\ Instr(g).op = "after"
    /\ timer' = now + Instr(g).d
    /\ Advance(g, Instr(g))
    /\ UNCHANGED <<prog, input, mem, syncVars, now, wake,
                   tmp, str, wg, mu, counter, ch, out, panicked>>

(* The timer fires: the runtime sends the time on the timer's channel. *)
TimerFire ==
    /\ ~panicked /\ pc[0] # "done"
    /\ timer # -1 /\ now >= timer
    /\ ch' = [ch EXCEPT !["timeout"].buf = Append(@, now)]
    /\ timer' = -1
    /\ UNCHANGED <<prog, input, mem, syncVars, now, wake,
                   pc, idx, tmp, str, wg, mu, counter, out, panicked>>

----------------------------------------------------------------------------

(* The variables of the programs before main runs: zero values. *)
ZeroMem ==
    [instance |-> 0, allocs |-> 0, data |-> {}, balance |-> 0,
     stack |-> <<>>, calls |-> 0, panicking |-> FALSE,
     count |-> <<0, 0>>, num |-> 0,
     ok |-> [g \in Procs |-> FALSE]]

Init ==
    /\ prog \in Progs
    /\ pc = [g \in Procs |-> IF g = 0 THEN Entry ELSE "none"]
    /\ idx = [g \in Procs |-> 0]
    /\ tmp = [g \in Procs |-> 0]
    /\ str = [g \in Procs |-> Text("", 0, 0)]
    /\ wg = 0
    /\ mu = FALSE
    /\ counter = 0
    /\ ch = [c \in Chans |-> [buf |-> <<>>, closed |-> FALSE]]
    /\ out = <<>>
    /\ panicked = FALSE
    /\ input \in Inputs
    /\ mem = ZeroMem
    /\ rw = [writer |-> FALSE, readers |-> 0]
    /\ once = "new"
    /\ now = 0
    /\ wake = [g \in Procs |-> -1]
    /\ timer = -1

(* A step of a goroutine. *)
Step ==
    \E g \in Procs :
        \/ Lock(g)
        \/ Unlock(g)
        \/ Load(g)
        \/ Store(g)
        \/ WgAdd(g)
        \/ WgDone(g)
        \/ WgWait(g)
        \/ GoStmt(g)
        \/ Println(g)
        \/ Send(g)
        \/ Recv(g)
        \/ RangeExit(g)
        \/ Close(g)
        \/ \E r \in Procs : Rendezvous(g, r)
        \/ Assign(g)
        \/ WLock(g)
        \/ WUnlock(g)
        \/ RLock(g)
        \/ RUnlock(g)
        \/ OnceDo(g)
        \/ OnceDone(g)
        \/ Sleep(g)
        \/ Wake(g)
        \/ After(g)
        \/ Return(g)

(* Somebody is waiting for a later time. *)
TimePending ==
    \/ timer > now
    \/ \E g \in Procs : Running(g) /\ wake[g] > now

(* A second passes; it does only when nothing else can happen. *)
Tick ==
    /\ ~panicked /\ pc[0] # "done"
    /\ TimePending
    /\ ~ENABLED (Step \/ TimerFire)
    /\ now' = now + 1
    /\ UNCHANGED <<prog, input, mem, syncVars, wake, timer,
                   pc, idx, tmp, str, wg, mu, counter, ch, out, panicked>>

Next == Step \/ TimerFire \/ Tick

Spec == Init /\ [][Next]_vars

(* The runtime runs some goroutine whenever one can take a step.  The      *)
(* fan-out, bank-account and stack programs and the programs that are one  *)
(* function with its caller are left to Spec: nothing is claimed about     *)
(* their progress.                                                         *)
SafetyProgs ==
    {"fanOut", "bank", "withdraw", "stack", "stackOps", "noDefer", "deferUnlock",
     "rateLimiter", "counters", "pointers", "sum", "range", "condition"}

FairProgs == Progs \ SafetyProgs

FairInit == Init /\ prog \in FairProgs

FairSpec == FairInit /\ [][Next]_vars /\ WF_vars(Next)

----------------------------------------------------------------------------
(* Properties. *)

MainDone == pc[0] = "done"

(* All goroutines are asleep: nothing can run and main has not returned. *)
Deadlocked == ~MainDone /\ ~panicked /\ ~ENABLED Next

(* The number of positions of sequence s that satisfy Test. *)
CountIn(s, Test(_)) == Cardinality({k \in 1 .. Len(s) : Test(s[k])})

(* Goroutine g is between mu.Lock() and mu.Unlock(). *)
InCritical(g) ==
    prog \in MutexProgs /\ pc[g] \in {"load", "store", "unlock", "vload", "vunlock"}

(* C1: in the mutex-protected counter programs, once wg.Wait() has         *)
(* returned the counter is exactly the number of goroutines started, and   *)
(* that is the one value main prints.                                      *)
C1_MutexCounterExact ==
    prog \in MutexProgs =>
        /\ pc[0] \notin {"add", "go", "wait"} => counter = NumGoroutines
        /\ MainDone => out = <<Text("%d", NumGoroutines, 0)>>

C1_Witness ==
    /\ prog \in MutexProgs /\ MainDone
    /\ out = <<Text("%d", NumGoroutines, 0)>>
    /\ tmp[NumGoroutines] # NumGoroutines - 1

(* C5: in the unsynchronized counter program the printed value is between  *)
(* 1 and the number of goroutines, and it is smaller than that number      *)
(* exactly when two goroutines read the same value (an increment is lost). *)
SameRead == \E g, h \in 1 .. NumGoroutines : g # h /\ tmp[g] = tmp[h]

C5_LostUpdateIffSameRead ==
    (prog = "unsafe" /\ MainDone) =>
        /\ Len(out) = 1
        /\ out[1][2] \in 1 .. NumGoroutines
        /\ out[1][2] < NumGoroutines <=> SameRead

C5_Witness ==
    /\ prog = "unsafe" /\ MainDone
    /\ out[1][2] < NumGoroutines
    /\ SameRead

(* C6: in the mutex-protected counter programs at most one goroutine is in *)
(* the critical section, and the mutex is held exactly when one is.        *)
C6_MutualExclusion ==
    prog \in MutexProgs =>
        /\ Cardinality({g \in Procs : InCritical(g)}) <= 1
        /\ mu <=> \E g \in Procs : InCritical(g)

C6_Witness ==
    /\ prog \in MutexProgs
    /\ \E g, h \in Procs : g # h /\ InCritical(g) /\ pc[h] = "lock"

(* C9: in the WaitGroup example main passes wg.Wait() only when every task *)
(* has called wg.Done(), and "All tasks completed!" is the last line,      *)
(* after the "done" line of every task.                                    *)
C9_AllTasksCompletedLast ==
    prog = "tasks" =>
        /\ pc[0] \in {"print", "done"} => \A g \in 1 .. NumTasks : pc[g] = "done"
        /\ \A k \in 1 .. Len(out) :
               out[k] = Text("All tasks completed!", 0, 0) =>
                   /\ k = Len(out)
                   /\ \A t \in 0 .. NumTasks - 1 :
                          \E j \in 1 .. k - 1 : out[j] = Text("Task %d: done", t, 0)

C9_Witness ==
    /\ prog = "tasks" /\ MainDone
    /\ out[Len(out)] = Text("All tasks completed!", 0, 0)
    /\ out[1] = Text("Task %d: started", NumTasks - 1, 0)

(* The worker goroutines of the two programs that collect results. *)
PoolProgs == {"workerPool", "processItem"}

Workers == IF prog = "workerPool" THEN 1 .. NumWorkers ELSE 1 .. NumGoroutines

(* The jobs main has sent so far. *)
SentJobs ==
    CASE pc[0] \in {"add", "go"} -> 0
      [] pc[0] = "sendjob" -> idx[0]
      [] OTHER -> NumJobs

(* The places job j is at: the jobs channel, a worker that holds it, the   *)
(* results channel, main's loop variable, the output.                      *)
JobCopies(j) ==
    CountIn(ch["jobs"].buf, LAMBDA x : x = j)
    + Cardinality({w \in 1 .. NumWorkers : pc[w] = "sendres" /\ tmp[w] = j})
    + CountIn(ch["results"].buf, LAMBDA x : x[3] = j)
    + (IF pc[0] = "print" /\ str[0][3] = j THEN 1 ELSE 0)
    + CountIn(out, LAMBDA x : x[3] = j)

(* C2: in the worker pool every job that was sent is at exactly one place  *)
(* at any time (no job is lost or handled twice), and when main's          *)
(* collection loop has ended it has printed exactly one result per job ID. *)
C2_OneResultPerJob ==
    prog = "workerPool" =>
        /\ \A j \in 1 .. NumJobs : JobCopies(j) = (IF j <= SentJobs THEN 1 ELSE 0)
        /\ MainDone =>
               /\ Len(out) = NumJobs
               /\ \A j \in 1 .. NumJobs : CountIn(out, LAMBDA x : x[3] = j) = 1

C2_Witness ==
    /\ prog = "workerPool" /\ MainDone
    /\ Len(out) = NumJobs
    /\ out[1][3] = NumJobs
    /\ \E k \in 2 .. Len(out) : out[k][2] # out[1][2]

(* C3: the results channel is closed only when every worker has called     *)
(* wg.Done(), no goroutine panics by sending on the closed channel, and    *)
(* main's range over results ends: main returns.                           *)
ClosedAfterWorkers ==
    prog \in PoolProgs =>
        /\ ~panicked
        /\ ch["results"].closed => (wg = 0 /\ \A w \in Workers : pc[w] = "done")

C3_CloseAfterWorkersAndTerminates ==
    /\ []ClosedAfterWorkers
    /\ <>(prog \in PoolProgs => MainDone)

C3_Witness ==
    /\ prog = "workerPool" /\ MainDone
    /\ ch["results"].closed
    /\ Len(out) = NumJobs

(* C4: in chan.go's main the two select statements receive 10 from chan1   *)
(* once and "pong" from chan2 once, main is never stuck before it has      *)
(* received both, and main returns.                                        *)
SelectReceivedBoth ==
    /\ Len(out) = SelectRounds
    /\ CountIn(out, LAMBDA x : x = Text("%d", 10, 0)) = 1
    /\ CountIn(out, LAMBDA x : x = Text("pong", 0, 0)) = 1

C4_SelectReceivesBoth ==
    /\ [](prog = "select" => (~Deadlocked /\ (MainDone => SelectReceivedBoth)))
    /\ <>(prog = "select" => MainDone)

C4_Witness ==
    /\ prog = "select" /\ MainDone
    /\ out = <<Text("pong", 0, 0), Text("%d", 10, 0)>>

(* C7: a send on the unbuffered channel completes only together with the   *)
(* receive: in the ping example the sender is past its send only when main *)
(* has received "ping", which main prints; when main itself sends before   *)
(* any receiver exists, main stays at the send forever and nothing can run.*)
C7_UnbufferedSendWaitsForReceiver ==
    /\ prog = "ping" =>
           /\ pc[1] = "done" => pc[0] \in {"print", "done"}
           /\ pc[0] \in {"print", "done"} => (pc[1] = "done" /\ str[0] = Text("ping", 0, 0))
           /\ MainDone => out = <<Text("ping", 0, 0)>>
    /\ prog = "pingMain" => (pc[0] = "send" /\ out = <<>> /\ Deadlocked)

C7_Witness ==
    /\ prog = "ping" /\ MainDone
    /\ pc[1] = "done"
    /\ out = <<Text("ping", 0, 0)>>

(* C8: on the channel of capacity 3 the three sends complete with no       *)
(* receiver, the values are received in the order sent (10, 20, 30), and   *)
(* with a fourth send main stays at that send forever with the buffer full *)
(* and nothing can run.                                                    *)
C8_BufferedCapacityAndOrder ==
    /\ prog = "buffered" =>
           /\ ~Deadlocked
           /\ pc[0] = "send" => (Len(ch["ch2"].buf) = idx[0] /\ out = <<>>)
           /\ MainDone =>
                  out = <<Text("%d", 10, 0), Text("%d", 20, 0), Text("%d", 30, 0)>>
    /\ prog = "bufferedFull" =>
           /\ pc[0] = "send" /\ out = <<>>
           /\ Len(ch["ch2"].buf) = idx[0]
           /\ Deadlocked <=> ch["ch2"].buf = <<10, 20, 30>>

C8_Witness ==
    /\ prog = "buffered" /\ MainDone
    /\ Len(out) = Ch2Cap
    /\ ch["ch2"].buf = <<>>

(* C10: processChan receives 1, 2, 3, 4, 5 in the order sent and leaves    *)
(* its loop only when the sender has closed the channel and all five       *)
(* values were received; in the program that never closes the channel      *)
(* processChan never leaves the loop.                                      *)
NumsInOrder ==
    \A k \in 1 .. Len(out) : out[k][1] = "Processing number: %d" => out[k][2] = k

C10_RangeUntilClosed ==
    /\ prog = "rangeChan" =>
           /\ NumsInOrder
           /\ pc[0] \in {"closedmsg", "done"} =>
                  /\ ch["numChan"].closed
                  /\ pc[1] = "done"
                  /\ CountIn(out, LAMBDA x : x[1] = "Processing number: %d") = NumValues
    /\ prog = "rangeNoClose" =>
           /\ pc[1] # "done"
           /\ ~ch["numChan"].closed
           /\ \A k \in 1 .. Len(out) : out[k][1] = "Processing number: %d"

C10_Witness ==
    /\ prog = "rangeChan" /\ MainDone
    /\ Len(out) = NumValues + 1
    /\ out[NumValues] = Text("Processing number: %d", NumValues, 0)
    /\ out[NumValues + 1] = Text("Channel closed, done processing", 0, 0)

(* The lines the consumer has printed, in order. *)
EmailLines == SelectSeq(out, LAMBDA x : x # Text("done sending", 0, 0))

AllEmailsProcessed ==
    /\ Len(EmailLines) = EmailCount
    /\ \A k \in 1 .. EmailCount :
           EmailLines[k] = Labelled(IF prog = "emailSender" THEN "sending email to"
                                    ELSE "Sending email to:", Email(k - 1))

(* C11: in the email queue the consumer sends on done only after emailChan *)
(* was closed and every queued email was printed, main gets past <-done    *)
(* only after all the emails were consumed, and the program terminates.    *)
C11_EmailQueueDrainsBeforeDone ==
    /\ [](prog \in {"emailQueue", "emailSender"} =>
            /\ pc[1] \in {"deferred", "done"} =>
                   (ch["emailChan"].closed /\ ch["emailChan"].buf = <<>>
                    /\ AllEmailsProcessed)
            /\ MainDone => (pc[1] = "done" /\ AllEmailsProcessed))
    /\ <>(prog \in {"emailQueue", "emailSender"} => MainDone)

C11_Witness ==
    /\ prog = "emailQueue" /\ MainDone
    /\ pc[1] = "done"
    /\ out[NumEmails] = Text("Sending email to: user%d@gmail.com", NumEmails - 1, 0)

(* C12: in the select with timeout the goroutine sends its result after 2 *)
(* seconds and the timer fires after 1, so main always takes the timeout   *)
(* branch and never the result branch (statements take no time on the      *)
(* scale of seconds).                                                      *)
C12_TimeoutBranchAlwaysTaken ==
    /\ [](prog = "selectTimeout" =>
            /\ pc[0] # "gotresult"
            /\ pc[1] \notin {"send", "done"}
            /\ MainDone => out = <<Text("Timeout! Operation took too long.", 0, 0)>>)
    /\ <>(prog = "selectTimeout" => MainDone)

C12_Witness ==
    /\ prog = "selectTimeout" /\ MainDone
    /\ now = TimeoutSeconds /\ wake[1] = SleepSeconds
    /\ out = <<Text("Timeout! Operation took too long.", 0, 0)>>

(* What main has received from the second stage so far. *)
PipelineReceived == Len(out) + (IF pc[0] = "print" THEN 1 ELSE 0)

(* C13: the pipeline delivers the squares in the order of the inputs (4,   *)
(* 9, 16, 25 for 2, 3, 4, 5), each stage closes its output only after its  *)
(* last value, and main's range loop ends: the program terminates.         *)
C13_PipelineSquaresInOrder ==
    /\ [](prog = "pipeline" =>
            /\ Len(out) <= Len(Nums)
            /\ \A k \in 1 .. Len(out) : out[k] = Text("%d", Nums[k] * Nums[k], 0)
            /\ ch["nums"].closed => idx[1] = Len(Nums)
            /\ ch["squares"].closed =>
                   (ch["nums"].closed /\ PipelineReceived = Len(Nums))
            /\ MainDone => (Len(out) = Len(Nums) /\ ch["squares"].closed))
    /\ <>(prog = "pipeline" => MainDone)

C13_Witness ==
    /\ prog = "pipeline" /\ MainDone
    /\ out = <<Text("%d", 4, 0), Text("%d", 9, 0), Text("%d", 16, 0), Text("%d", 25, 0)>>
    /\ ch["nums"].closed /\ ch["squares"].closed

(* The goroutines of fanOut and the forwarding goroutines of merge. *)
FanWorkers == 1 .. NumFan
Forwarders == NumFan + 1 .. 2 * NumFan

(* The doubled value d: how often it is on its way from a worker to main   *)
(* or printed by main, and how often its half was taken from input.        *)
Delivered(d) == CountIn(out, LAMBDA x : x = Text("%d", d, 0))

OnTheWay(d) ==
    Cardinality({g \in FanWorkers : pc[g] = "send" /\ tmp[g] * 2 = d})
    + Cardinality({g \in Forwarders : pc[g] = "send" /\ tmp[g] = d})
    + CountIn(ch["merged"].buf, LAMBDA x : x = d)
    + (IF pc[0] = "print" /\ tmp[0] = d THEN 1 ELSE 0)

Taken(d) == Cardinality({k \in 1 .. idx[FanProducer] : input[k] * 2 = d})

(* C14: with fanOut feeding merge, every value taken from input is held by *)
(* exactly one goroutine or buffer, doubled, until main has received it:   *)
(* once input is closed and merged drained, main has received exactly the  *)
(* doubles of the inputs, each as often as its input occurs; merged is     *)
(* closed only after every forwarding goroutine has finished.              *)
C14_FanOutMergeExactlyOnce ==
    prog = "fanOut" =>
        /\ ~panicked
        /\ \A d \in 1 .. 4 : Delivered(d) + OnTheWay(d) = Taken(d)
        /\ ch["merged"].closed =>
               (wg = 0 /\ \A g \in Forwarders : pc[g] = "done")
        /\ MainDone =>
               /\ ch["input"].closed /\ ch["merged"].closed
               /\ Len(out) = NumInputs
               /\ \A d \in 1 .. 4 :
                      Delivered(d) = Cardinality({k \in 1 .. NumInputs : input[k] * 2 = d})

C14_Witness ==
    /\ prog = "fanOut" /\ MainDone
    /\ input[1] = input[2]
    /\ out = <<Text("%d", input[1] * 2, 0), Text("%d", input[2] * 2, 0)>>
    /\ tmp[1] = input[1] /\ tmp[2] = input[2]

(* The numbers the goroutines have printed. *)
Printed == {out[k][2] : k \in 1 .. Len(out)}

(* C15: in the loop whose closure captures the loop variable i, all three  *)
(* goroutines print 3; in the version that passes i as a parameter the     *)
(* goroutines print 0, 1 and 2, each exactly once, in any order.           *)
C15_CaptureAllPrintThree ==
    /\ prog = "capture" => \A k \in 1 .. Len(out) : out[k] = Text("%d", NumClosures, 0)
    /\ prog = "passParam" =>
           /\ Printed \subseteq 0 .. NumClosures - 1
           /\ Cardinality(Printed) = Len(out)
           /\ (\A g \in 1 .. NumClosures : pc[g] = "done") =>
                  Printed = 0 .. NumClosures - 1

(* The goroutines that call GetConfig, and the lines printed. *)
Callers == 1 .. NumGoroutines

InitLines == CountIn(out, LAMBDA x : x = Text("Config initialized!", 0, 0))

(* C16: with the goroutines calling GetConfig concurrently, the function   *)
(* passed to once.Do runs exactly once, and every call of GetConfig        *)
(* returns the same non-nil instance: no caller sees instance before it is *)
(* initialized.                                                            *)
C16_OnceInitializesOnce ==
    prog = "once" =>
        /\ ~panicked
        /\ mem.allocs <= 1 /\ InitLines <= 1
        /\ Cardinality({g \in Callers : pc[g] \in {"init", "initmsg", "initdone"}}) <= 1
        /\ \A g \in Callers :
               pc[g] \in {"use", "wgdone", "done"} =>
                   (tmp[g] = 1 /\ mem.instance = 1 /\ mem.allocs = 1 /\ InitLines = 1)
        /\ MainDone => Len(out) = NumGoroutines + 1

C16_Witness ==
    /\ prog = "once" /\ MainDone
    /\ InitLines = 1
    /\ \A g \in Callers : tmp[g] = 1
    /\ out[1] = Text("Config initialized!", 0, 0)

(* The goroutines inside Set (holding the write lock) and inside Get      *)
(* (holding a read lock).                                                  *)
WriteHolders == {g \in Procs : prog = "cache" /\ pc[g] \in {"set", "wunlock"}}
ReadHolders == {g \in Procs : prog = "cache" /\ pc[g] \in {"get", "runlock"}}

(* C17: for the cache behind the RWMutex, in every reachable state either  *)
(* no goroutine holds the write lock, or exactly one holds it and none     *)
(* holds a read lock; several goroutines may hold the read lock together.  *)
C17_WriterExcludesAll ==
    prog = "cache" =>
        /\ Cardinality(WriteHolders) <= 1
        /\ WriteHolders # {} => ReadHolders = {}
        /\ rw.writer <=> WriteHolders # {}
        /\ rw.readers = Cardinality(ReadHolders)

C17_Witness ==
    /\ prog = "cache"
    /\ Cardinality(ReadHolders) >= 2
    /\ mem.data # {}

(* The goroutines that withdraw, and the balance the example expects. *)
Withdrawers == NumDeposits + 1 .. NumDeposits + NumWithdrawals

ExpectedBalance ==
    InitialBalance + NumDeposits * DepositAmount - NumWithdrawals * WithdrawAmount

(* C18: starting from 1000, with the goroutines depositing 10 and          *)
(* withdrawing 20 concurrently, the balance after wg.Wait() is the initial *)
(* balance plus the deposits minus the withdrawals in every interleaving   *)
(* (1100 for 50 deposits and 20 withdrawals), and no Withdraw returns an   *)
(* error.                                                                  *)
C18_BankBalanceExact ==
    prog = "bank" =>
        /\ \A g \in Withdrawers :
               pc[g] \notin {"fail", "printerr"} /\ str[g] = Text("", 0, 0)
        /\ pc[0] \in {"print", "done"} => mem.balance = ExpectedBalance
        /\ MainDone => out = <<Text("Final balance: %d.00", ExpectedBalance, 0)>>

C18_Witness ==
    /\ prog = "bank" /\ MainDone
    /\ mem.balance = ExpectedBalance
    /\ \A g \in 1 .. NumDeposits + NumWithdrawals : pc[g] = "done"

(* C19: Withdraw(amount) with amount greater than the balance returns the  *)
(* error "insufficient funds" and leaves the balance unchanged; otherwise  *)
(* it returns nil and reduces the balance by exactly amount.               *)
C19_WithdrawContract ==
    (prog = "withdraw" /\ pc[0] \in {"returned", "done"}) =>
        /\ ~mu
        /\ IF input[2] > input[1]
           THEN str[0] = Text("insufficient funds", 0, 0) /\ mem.balance = input[1]
           ELSE str[0] = Text("", 0, 0) /\ mem.balance = input[1] - input[2]

C19_Witness ==
    /\ prog = "withdraw" /\ MainDone
    /\ input[2] > input[1]
    /\ str[0] = Text("insufficient funds", 0, 0)

C19_WitnessNil ==
    /\ prog = "withdraw" /\ MainDone
    /\ input[2] = input[1] /\ input[2] > 0
    /\ str[0] = Text("", 0, 0) /\ mem.balance = 0

(* A last-in-first-out store after the first k calls of input: the        *)
(* values pushed and not yet popped, the most recently pushed last.        *)
RECURSIVE Lifo(_)
Lifo(k) ==
    IF k = 0 THEN <<>>
    ELSE LET before == Lifo(k - 1)
         IN  CASE input[k] > 0 -> Append(before, input[k])
               [] input[k] = 0 /\ before # <<>> -> SubSeq(before, 1, Len(before) - 1)
               [] OTHER -> before

(* What Pop or Peek must return when called on the store s. *)
Top(s) == IF s = <<>> THEN <<0, FALSE>> ELSE <<s[Len(s)], TRUE>>

(* The numbers main has popped: printed, or just returned by Pop. *)
PoppedSoFar ==
    {out[k][2] : k \in 1 .. Len(out)}
        \cup (IF pc[0] \in {"popunlock", "test", "print"} /\ mem.ok[0]
              THEN {tmp[0]} ELSE {})

(* C20: after the goroutines have pushed 1 .. n concurrently and main has  *)
(* waited, repeated Pop returns each of them exactly once and then         *)
(* (0, false); Pop and Peek on an empty stack return (0, false) and leave  *)
(* it unchanged; Pop always returns the most recently pushed element that  *)
(* is still on the stack, and Peek returns it without removing it.         *)
C20_StackPopsEachOnceLifo ==
    /\ prog = "stack" =>
           /\ pc[0] \in {"poplock", "pop", "popunlock", "test", "print", "done"} =>
                  /\ Len(mem.stack) + Cardinality(PoppedSoFar) = NumGoroutines
                  /\ {mem.stack[k] : k \in 1 .. Len(mem.stack)} \cup PoppedSoFar
                         = 1 .. NumGoroutines
           /\ MainDone =>
                  /\ Len(out) = NumGoroutines /\ mem.stack = <<>>
                  /\ tmp[0] = 0 /\ ~mem.ok[0]
    /\ (prog = "stackOps" /\ pc[0] = "ret") =>
           /\ mem.stack = Lifo(idx[0] + 1)
           /\ input[idx[0] + 1] <= 0 => <<tmp[0], mem.ok[0]>> = Top(Lifo(idx[0]))

C20_Witness ==
    /\ prog = "stack" /\ MainDone
    /\ Len(out) = NumGoroutines
    /\ out[1] # Text("Popped: %d", NumGoroutines, 0)

C20_WitnessOps ==
    /\ prog = "stackOps" /\ pc[0] = "ret" /\ idx[0] = 2
    /\ input = <<1, 2, 0>> /\ tmp[0] = 2 /\ mem.stack = <<1>>

C20_WitnessEmptyPeek ==
    /\ prog = "stackOps" /\ pc[0] = "ret"
    /\ input[idx[0] + 1] = -1 /\ Lifo(idx[0]) = <<>>
    /\ tmp[0] = 0 /\ ~mem.ok[0] /\ mem.stack = <<>>

----------------------------------------------------------------------------
(* A call of the function without defer has returned its error (err is   *)
(* set by riskyOperation only, so it stays set unless a later call gets    *)
(* as far as riskyOperation).                                              *)
ReturnedLocked == prog = "noDefer" /\ str[0] # Text("", 0, 0)

(* C21: when the function locks the mutex and returns early on the error   *)
(* without unlocking, the mutex stays held from then on and no later Lock  *)
(* ever returns: the program is never again past a Lock.  With defer       *)
(* mu.Unlock() right after Lock, the mutex is free whenever a call has     *)
(* returned, by the error return as well as by the normal one.             *)
C21_DeferUnlocksOnEveryPath ==
    /\ ReturnedLocked => mu /\ pc[0] \in {"ret", "call", "lock", "done"}
    /\ prog = "deferUnlock" /\ pc[0] \in {"ret", "call", "lock", "done"} => ~mu

(* A later call waits at Lock for the mutex the failed call still holds. *)
C21_Witness == ReturnedLocked /\ pc[0] = "lock" /\ idx[0] > 0

(* With defer, a call has returned its error and the mutex is free. *)
C21_WitnessDefer ==
    prog = "deferUnlock" /\ pc[0] = "ret" /\ str[0] # Text("", 0, 0) /\ ~mu

----------------------------------------------------------------------------
(* The lines of the requests the limiter let through / turned down. *)
RequestOk(k) == Text("Request %d: OK", k, 0)
RequestLimited(k) == Text("Request %d: RATE LIMITED", k, 0)

(* C22: the function returned by makeRateLimiter(maxCalls) returns true on *)
(* each of its first maxCalls calls and false on every call after that:    *)
(* the k-th request is printed as OK when k <= maxCalls and as RATE        *)
(* LIMITED otherwise, and the value just returned by the k-th call is      *)
(* true exactly when k <= maxCalls.                                        *)
C22_RateLimiterFirstMaxCalls ==
    prog = "rateLimiter" =>
        /\ \A k \in 1 .. Len(out) :
               out[k] = IF k <= input[1] THEN RequestOk(k) ELSE RequestLimited(k)
        /\ pc[0] = "print" => /\ mem.calls = idx[0] + 1
                              /\ mem.ok[0] = (mem.calls <= input[1])

(* maxCalls = 3: requests 1 to 3 were OK, requests 4 and 5 rate limited. *)
C22_Witness ==
    /\ prog = "rateLimiter" /\ input[1] = 3 /\ pc[0] = "done"
    /\ out = <<RequestOk(1), RequestOk(2), RequestOk(3),
               RequestLimited(4), RequestLimited(5)>>

----------------------------------------------------------------------------
(* q is the quotient of a by b truncated toward zero: a = q * b + r with   *)
(* |r| < |b| and r of the sign of a.  The one quotient that is not an int, *)
(* MinInt / -1, wraps to MinInt.                                           *)
IsQuotient(q, a, b) ==
    IF a = MinInt /\ b = -1
    THEN q = MinInt
    ELSE LET r == a - q * b
         IN  /\ Abs(r) < Abs(b)
             /\ r = 0 \/ (r < 0) = (a < 0)

(* C23: safeDiv(a, b) with b = 0 does not crash the program: the deferred  *)
(* closure recovers the panic and safeDiv returns a non-nil error, which   *)
(* main prints; with b # 0 it returns a / b and a nil error.               *)
C23_SafeDivRecovers ==
    prog = "safeDiv" =>
        /\ ~panicked
        /\ pc[0] \in {"check", "done"} =>
               /\ ~mem.panicking
               /\ input[2] = 0 => str[0] = DivideByZero
               /\ input[2] # 0 => /\ str[0] = Text("", 0, 0)
                                  /\ IsQuotient(tmp[0], input[1], input[2])
        /\ pc[0] = "done" =>
               out = IF input[2] = 0
                     THEN <<Labelled("Error:", DivideByZero)>>
                     ELSE <<Text("%d", tmp[0], 0)>>

(* safeDiv(10, 0) has returned the error and main has printed it. *)
C23_Witness ==
    /\ prog = "safeDiv" /\ input = <<10, 0>> /\ pc[0] = "done"
    /\ out = <<Labelled("Error:", DivideByZero)>>

(* A quotient that truncation and flooring round differently. *)
C23_WitnessNegative ==
    /\ prog = "safeDiv" /\ input = <<-3, 2>> /\ pc[0] = "done"
    /\ tmp[0] = -1 /\ str[0] = Text("", 0, 0)

----------------------------------------------------------------------------
(* The number of calls of the c-th function among the first n calls. *)
CallsOf(c, n) == Cardinality({k \in 1 .. n : input[k] = c})

(* C24: each function returned by counter() keeps its own count starting   *)
(* at 1: its k-th call returns k + 1, whatever calls of the other function *)
(* come in between, and the count of each function is 1 plus the number of *)
(* its own calls, so that no call changes the count of the other one.      *)
C24_CountersIndependent ==
    prog = "counters" =>
        /\ \A k \in 1 .. Len(out) : out[k] = Text("%d", CallsOf(input[k], k) + 1, 0)
        /\ pc[0] = "print" => tmp[0] = CallsOf(input[idx[0] + 1], idx[0] + 1) + 1
        /\ pc[0] \in {"call", "done"} =>
               \A c \in 1 .. 2 : mem.count[c] = CallsOf(c, idx[0]) + 1

(* c1(), c1(), c2(), c2(), c1() have returned 2, 3, 2, 3, 4. *)
C24_Witness ==
    /\ prog = "counters" /\ SubSeq(input, 1, 5) = <<1, 1, 2, 2, 1>>
    /\ Len(out) >= 5
    /\ SubSeq(out, 1, 5) = <<Text("%d", 2, 0), Text("%d", 3, 0), Text("%d", 2, 0),
                             Text("%d", 3, 0), Text("%d", 4, 0)>>

----------------------------------------------------------------------------
(* Every variable of the program but num of main and the parameter of the  *)
(* function has the value it started with.                                 *)
OthersUnchanged ==
    /\ \A f \in DOMAIN mem \ {"num"} : mem[f] = ZeroMem[f]
    /\ \A g \in Procs \ {0} : tmp[g] = 0
    /\ counter = 0 /\ wg = 0 /\ ~mu
    /\ \A c \in Chans : ch[c] = [buf |-> <<>>, closed |-> FALSE]

(* C25: changeNum(num) leaves the variable of the caller unchanged, main   *)
(* still sees 1 after the call, while changeNum1(&num) sets it to 5; both  *)
(* functions print 5, and neither call changes any other variable.         *)
C25_ChangeNumValueAndPointer ==
    prog = "pointers" =>
        /\ OthersUnchanged
        /\ pc[0] \in {"pass", "set", "in", "after", "passptr", "setptr"} => mem.num = 1
        /\ pc[0] \in {"inptr", "afterptr", "done"} => mem.num = NewNum
        /\ pc[0] = "done" =>
               out = <<Text("In ChangeNum %d", 5, 0), Text("After change in main %d", 1, 0),
                       Text("In ChangeNum %d", 5, 0), Text("After change in main %d", 5, 0)>>

(* changeNum has set its copy to 5 and returned; main's num is still 1. *)
C25_Witness ==
    prog = "pointers" /\ pc[0] = "after" /\ tmp[0] = 5 /\ mem.num = 1

(* changeNum1 has returned and main sees 5. *)
C25_WitnessPointer ==
    prog = "pointers" /\ pc[0] = "afterptr" /\ mem.num = 5

----------------------------------------------------------------------------
(* The arithmetic sum of the elements of s. *)
RECURSIVE SumOf(_)
SumOf(s) == IF s = <<>> THEN 0 ELSE Head(s) + SumOf(Tail(s))

(* C26 as stated: summing {1,3,2,4,5} with the range loop yields 15; for   *)
(* every list of integers the loop returns the arithmetic sum of all the   *)
(* elements, and sum() with no arguments returns 0.                        *)
C26_SumIsArithmeticSum ==
    /\ prog = "range" /\ Len(out) >= 1 => out[1] = Text("%d", 15, 0)
    /\ prog = "sum" /\ pc[0] \in {"print", "done"} => tmp[0] = SumOf(input)
    /\ prog = "sum" /\ pc[0] = "done" /\ input = <<>> => out = <<Text("%d", 0, 0)>>

(* C26, amended: summing {1,3,2,4,5} with the range loop yields 15; for    *)
(* every list of ints the loop returns the arithmetic sum of all the       *)
(* elements reduced to the range of int by two's-complement wrap-around,   *)
(* which is the arithmetic sum itself whenever that sum is an int; sum()   *)
(* with no arguments returns 0.                                            *)
C26_SumWrapsToInt ==
    /\ prog = "range" /\ Len(out) >= 1 => out[1] = Text("%d", 15, 0)
    /\ prog = "sum" /\ pc[0] \in {"print", "done"} =>
           /\ tmp[0] \in MinInt .. MaxInt
           /\ (tmp[0] - SumOf(input)) % (2 ^ IntBits) = 0
           /\ SumOf(input) \in MinInt .. MaxInt => tmp[0] = SumOf(input)
    /\ prog = "sum" /\ pc[0] = "done" => out = <<Text("%d", tmp[0], 0)>>
    /\ prog = "sum" /\ pc[0] = "done" /\ input = <<>> => out = <<Text("%d", 0, 0)>>

(* sum(MaxInt, 1) has returned MinInt. *)
C26_Witness ==
    prog = "sum" /\ input = <<MaxInt, 1>> /\ pc[0] = "done" /\ tmp[0] = MinInt

(* The range loop over {1,3,2,4,5} has printed 15. *)
C26_WitnessRange ==
    prog = "range" /\ pc[0] = "done" /\ out[1] = Text("%d", 15, 0)

----------------------------------------------------------------------------
Days == {Text("Cold Day", 0, 0), Text("Moderate Day", 0, 0), Text("Hot Day", 0, 0)}

(* C27: for every integer temp exactly one of "Cold Day", "Moderate Day"   *)
(* and "Hot Day" is printed, "Moderate Day" whenever temp is between 15    *)
(* and 25 inclusive, and "Hot Day" only when temp > 25.                    *)
C27_ModerateFrom15To25 ==
    prog = "condition" /\ pc[0] # "temp" =>
        /\ Cardinality({k \in 1 .. Len(out) : out[k] \in Days}) = 1
        /\ input[1] \in 15 .. 25 => out[1] = Text("Moderate Day", 0, 0)
        /\ out[1] = Text("Hot Day", 0, 0) => input[1] > 25

====
